---- MODULE Spec2Model ----
(***************************************************************************)
(* Model of the Nexus/Trivy scanner (src/clean_nexus_scanner.py):          *)
(* artifact classification, scan-strategy planning, the per-asset scan     *)
(* pipeline and its temporary files.                                       *)
(*                                                                         *)
(* Python strings are modelled as sequences of one-character strings, so   *)
(* that str.lower, str.endswith, the `in` substring test and str.replace   *)
(* are computed character by character.                                    *)
(***************************************************************************)
EXTENDS Integers, Sequences, FiniteSets, TLC

VARIABLES
    \* --- classification and planning applied to one input ---
    c_name,          \* asset name given to the classifier
    c_fmt,           \* repository format given to the classifier
    c_pc,            \* "start", "detected", "planned" or "planned_given"
    c_calls,         \* calls of the classifier made for the input so far
    c_type,          \* artifact type given to or returned by the classifier
    c_strategy,      \* strategy returned by the planner
    \* --- scan session (scan_content_repositories) ---
    pc,              \* position of the session in its loops
    n_repos,         \* repositories begun so far
    n_items,         \* assets and docker components taken so far
    cur_format,      \* format of the repository being scanned
    cur_asset,       \* name of the asset being processed
    cur_type,        \* its detected artifact type
    cur_strategy,    \* its scan strategy
    fs,              \* paths that exist in the temporary directory
    scan,            \* locals of scan_with_strategy / scan_with_trivy
    stats,           \* self.stats
    type_counts,     \* self.statistics['artifact_types']
    scan_issues,     \* self.scan_issues
    all_vulnerabilities,
    report,          \* statistics written by generate_combined_report
    image_ref,       \* index of the docker image reference being tried
    cur_component,   \* name and version of the docker component being scanned
    \* --- record of the calls made, per item ---
    plans,           \* item -> strategy planned for it
    downloads,       \* items for which download_asset was called, in order
    engine_runs,     \* items for which the engine was invoked, in order
    \* --- extract_vulnerabilities applied to one raw engine output ---
    x_doc,           \* the raw output given to extract_vulnerabilities
    x_pc,            \* "idle", "start" or "extracted"
    x_out,           \* what the call returned, or that it raised
    \* --- enhance_nodejs_package_for_scanning on one extracted tree ---
    m_tree,          \* directory -> manifest and lock files it holds
    m_prev,          \* the tree as it was before the latest call
    m_calls,         \* calls made on the tree so far
    m_op,            \* the latest call: "none", "enhance", "create_lock", ...
    \* --- generate_combined_report applied to one list of records ---
    r_vulns,         \* the vulnerability records given to the report
    r_pc,            \* "idle", "start" or "reported"
    r_summary,       \* repository_summary as written to the report
    \* --- get_repository_components on one repository ---
    g_pc,            \* "idle", "loop" or "returned"
    g_components,    \* components accumulated by the loop
    g_token,         \* continuation_token
    g_responses,     \* the responses received, in order
    g_returned,      \* the list the call returned
    \* --- the scanner's log read by monitor_progress.parse_log_progress ---
    l_log,           \* messages of the scanner's log file, in order
    l_stats,         \* the scanner's stats for the assets logged so far
    l_progress,      \* what parse_log_progress last returned
    l_snapshot,      \* the scanner's stats when the log was last parsed
    l_cur            \* the asset the scanner is at, and the statement reached

cvars == <<c_name, c_fmt, c_pc, c_calls, c_type, c_strategy>>

svars == <<pc, n_repos, n_items, cur_format, cur_asset, cur_type, cur_strategy,
           fs, scan, stats, type_counts, scan_issues, all_vulnerabilities,
           report, image_ref, cur_component, plans, downloads, engine_runs>>

evars == <<x_doc, x_pc, x_out>>

mvars == <<m_tree, m_prev, m_calls, m_op>>

rvars == <<r_vulns, r_pc, r_summary>>

gvars == <<g_pc, g_components, g_token, g_responses, g_returned>>

lvars == <<l_log, l_stats, l_progress, l_snapshot, l_cur>>

vars == <<cvars, svars, evars, mvars, rvars, gvars, lvars>>

(***************************************************************************)
(* String primitives                                                       *)
(***************************************************************************)

\* str.lower() on the letters that occur in the modelled names
UpperToLower ==
    [A |-> "a", B |-> "b", C |-> "c", D |-> "d", E |-> "e", F |-> "f",
     G |-> "g", H |-> "h", I |-> "i", J |-> "j", K |-> "k", L |-> "l",
     M |-> "m", N |-> "n", O |-> "o", P |-> "p", Q |-> "q", R |-> "r",
     S |-> "s", T |-> "t", U |-> "u", V |-> "v", W |-> "w", X |-> "x",
     Y |-> "y", Z |-> "z"]

Lower(s) ==
    [i \in 1..Len(s) |->
        IF s[i] \in DOMAIN UpperToLower THEN UpperToLower[s[i]] ELSE s[i]]

\* s.endswith(suf)
EndsWith(s, suf) ==
    /\ Len(s) >= Len(suf)
    /\ SubSeq(s, Len(s) - Len(suf) + 1, Len(s)) = suf

\* sub in s
Contains(s, sub) ==
    \E i \in 1..(Len(s) - Len(sub) + 1) : SubSeq(s, i, i + Len(sub) - 1) = sub

\* any(s.endswith(ext) for ext in exts)
EndsWithAny(s, exts) == \E j \in 1..Len(exts) : EndsWith(s, exts[j])

\* any(x in s for x in subs)
ContainsAny(s, subs) == \E j \in 1..Len(subs) : Contains(s, subs[j])

\* s.replace(old, new) for single characters
ReplaceChar(s, old, new) == [i \in 1..Len(s) |-> IF s[i] = old THEN new ELSE s[i]]

(***************************************************************************)
(* Extension and hint tables of detect_artifact_type                       *)
(***************************************************************************)

\* the checksum table with one extension forgotten
ChecksumExtsWithoutSha512 ==
    <<<<".","m","d","5">>,
      <<".","s","h","a","1">>,
      <<".","s","h","a","2","5","6">>>>

ChecksumExts ==
    <<<<".","m","d","5">>,
      <<".","s","h","a","1">>,
      <<".","s","h","a","2","5","6">>,
      <<".","s","h","a","5","1","2">>>>

JavaArchiveExts ==
    <<<<".","j","a","r">>,
      <<".","w","a","r">>,
      <<".","e","a","r">>>>

JavaSourceExts ==
    <<<<".","j","a","v","a">>,
      <<".","c","l","a","s","s">>>>

PythonExts ==
    <<<<".","w","h","l">>,
      <<".","e","g","g">>>>

NugetExts ==
    <<<<".","n","u","p","k","g">>,
      <<".","n","u","s","p","e","c">>>>

DockerManifestNames ==
    <<<<"m","a","n","i","f","e","s","t",".","j","s","o","n">>,
      <<"c","o","n","f","i","g",".","j","s","o","n">>>>

ArchiveExts ==
    <<<<".","z","i","p">>,
      <<".","7","z">>,
      <<".","r","a","r">>>>

TarExts ==
    <<<<".","t","a","r">>,
      <<".","t","a","r",".","g","z">>,
      <<".","t","g","z">>>>

ExecutableExts ==
    <<<<".","e","x","e">>,
      <<".","d","l","l">>,
      <<".","s","o">>,
      <<".","d","y","l","i","b">>>>

ScriptExts ==
    <<<<".","s","h">>,
      <<".","b","a","t">>,
      <<".","p","s","1">>,
      <<".","p","y">>,
      <<".","j","s">>>>

ConfigExts ==
    <<<<".","x","m","l">>,
      <<".","j","s","o","n">>,
      <<".","y","a","m","l">>,
      <<".","y","m","l">>,
      <<".","p","r","o","p","e","r","t","i","e","s">>,
      <<".","c","o","n","f">>>>

SbomNames ==
    <<<<".","s","p","d","x">>>>

SecurityReportNames ==
    <<<<"t","r","i","v","y","-","r","e","p","o","r","t">>,
      <<"s","c","a","n","-","r","e","p","o","r","t">>,
      <<".","s","a","r","i","f">>>>

TarGz == <<".","t","a","r",".","g","z">>

Tgz == <<".","t","g","z">>

PomXml == <<"p","o","m",".","x","m","l">>

PomExt == <<".","p","o","m">>

PythonHint == <<"p","y","t","h","o","n">>

PackageJson == <<"p","a","c","k","a","g","e",".","j","s","o","n">>

NpmExt == <<".","n","p","m">>

NodeHint == <<"n","o","d","e">>

ClientHint == <<"c","l","i","e","n","t">>

NpmHint == <<"n","p","m">>

JsonExt == <<".","j","s","o","n">>

SbomHint == <<"s","b","o","m">>

(***************************************************************************)
(* Input domains                                                           *)
(***************************************************************************)

\* the ArtifactType tags returned by detect_artifact_type or named by
\* determine_scan_strategy and artifact_patterns
ArtifactTypes ==
    {"java_jar", "java_source", "maven_pom", "python_package", "node_package",
     "nuget_package", "container_image", "docker_manifest", "archive",
     "source_code", "binary_executable", "script", "configuration", "sbom",
     "security_report", "maven_artifact", "raw_file", "unknown"}

\* repository formats: the five the code tests for, and one it does not
Formats == {"docker", "npm", "maven2", "nuget", "raw", "pypi"}

\* the text of an artifact type tag, as interpolated into a reason
TypeText(t) ==
    CASE t = "java_jar" -> <<"j","a","v","a","_","j","a","r">>
      [] t = "java_source" -> <<"j","a","v","a","_","s","o","u","r","c","e">>
      [] t = "maven_pom" -> <<"m","a","v","e","n","_","p","o","m">>
      [] t = "python_package" -> <<"p","y","t","h","o","n","_","p","a","c","k","a","g","e">>
      [] t = "node_package" -> <<"n","o","d","e","_","p","a","c","k","a","g","e">>
      [] t = "nuget_package" -> <<"n","u","g","e","t","_","p","a","c","k","a","g","e">>
      [] t = "container_image" -> <<"c","o","n","t","a","i","n","e","r","_","i","m","a","g","e">>
      [] t = "docker_manifest" -> <<"d","o","c","k","e","r","_","m","a","n","i","f","e","s","t">>
      [] t = "archive" -> <<"a","r","c","h","i","v","e">>
      [] t = "source_code" -> <<"s","o","u","r","c","e","_","c","o","d","e">>
      [] t = "binary_executable" -> <<"b","i","n","a","r","y","_","e","x","e","c","u","t","a","b","l","e">>
      [] t = "script" -> <<"s","c","r","i","p","t">>
      [] t = "configuration" -> <<"c","o","n","f","i","g","u","r","a","t","i","o","n">>
      [] t = "sbom" -> <<"s","b","o","m">>
      [] t = "security_report" -> <<"s","e","c","u","r","i","t","y","_","r","e","p","o","r","t">>
      [] t = "maven_artifact" -> <<"m","a","v","e","n","_","a","r","t","i","f","a","c","t">>
      [] t = "raw_file" -> <<"r","a","w","_","f","i","l","e">>
      [] t = "unknown" -> <<"u","n","k","n","o","w","n">>

\* asset names are stem + middle + extension
NameStems ==
    {<<"l","i","b">>,
     <<"n","o","d","e","-","l","i","b">>,
     <<"p","y","t","h","o","n","-","l","i","b">>,
     <<"p","o","m",".","x","m","l">>,
     <<"p","a","c","k","a","g","e",".","j","s","o","n">>,
     <<"c","o","n","f","i","g",".","j","s","o","n">>,
     <<"s","b","o","m">>,
     <<"s","c","a","n","-","r","e","p","o","r","t">>,
     <<"d","i","r","/","c","l","i","e","n","t">>}

NameExts ==
    {<<>>,
     <<".","m","d","5">>,
     <<".","s","h","a","1">>,
     <<".","s","h","a","2","5","6">>,
     <<".","s","h","a","5","1","2">>,
     <<".","j","a","r">>,
     <<".","w","a","r">>,
     <<".","e","a","r">>,
     <<".","j","a","v","a">>,
     <<".","c","l","a","s","s">>,
     <<".","p","o","m">>,
     <<".","w","h","l">>,
     <<".","e","g","g">>,
     <<".","t","a","r",".","g","z">>,
     <<".","t","g","z">>,
     <<".","n","u","p","k","g">>,
     <<".","n","u","s","p","e","c">>,
     <<".","n","p","m">>,
     <<".","z","i","p">>,
     <<".","7","z">>,
     <<".","r","a","r">>,
     <<".","t","a","r">>,
     <<".","e","x","e">>,
     <<".","d","l","l">>,
     <<".","s","o">>,
     <<".","d","y","l","i","b">>,
     <<".","s","h">>,
     <<".","b","a","t">>,
     <<".","p","s","1">>,
     <<".","p","y">>,
     <<".","j","s">>,
     <<".","x","m","l">>,
     <<".","j","s","o","n">>,
     <<".","y","a","m","l">>,
     <<".","y","m","l">>,
     <<".","p","r","o","p","e","r","t","i","e","s">>,
     <<".","c","o","n","f">>,
     <<".","s","p","d","x">>,
     <<".","s","a","r","i","f">>,
     <<".","b","a","k">>,
     <<".","J","A","R">>,
     <<".","T","G","Z">>,
     <<".","T","A","R",".","G","Z">>,
     <<".","S","H","A","2","5","6">>,
     <<".","M","d","5">>}

\* a stem, nothing or ".md5" in the middle, and an extension
Names ==
    {s \o m \o e : s \in NameStems, m \in {<<>>, <<".","m","d","5">>},
                   e \in NameExts}

(***************************************************************************)
(* detect_artifact_type                                                    *)
(***************************************************************************)

\* the ordered rules of detect_artifact_type, on asset_lower = asset_name.lower()
DetectRules(asset_lower, repo_format) ==
    IF repo_format = "docker" THEN "container_image"
    ELSE IF repo_format = "npm" THEN
        (IF EndsWith(asset_lower, Tgz) \/ Contains(asset_lower, <<"p","a","c","k","a","g","e">>)
         THEN "node_package"
         ELSE "node_package")
    ELSE IF EndsWithAny(asset_lower, ChecksumExts) THEN "script"
    ELSE IF EndsWithAny(asset_lower, JavaArchiveExts) THEN "java_jar"
    ELSE IF EndsWithAny(asset_lower, JavaSourceExts) THEN "java_source"
    ELSE IF Contains(asset_lower, PomXml) \/ EndsWith(asset_lower, PomExt)
        THEN "maven_pom"
    ELSE IF \/ EndsWithAny(asset_lower, PythonExts)
            \/ (EndsWith(asset_lower, TarGz) /\ Contains(asset_lower, PythonHint))
        THEN "python_package"
    ELSE IF EndsWithAny(asset_lower, NugetExts) THEN "nuget_package"
    ELSE IF \/ Contains(asset_lower, PackageJson)
            \/ EndsWith(asset_lower, NpmExt)
            \/ (/\ EndsWith(asset_lower, Tgz)
                /\ (\/ Contains(asset_lower, NodeHint)
                    \/ Contains(asset_lower, ClientHint)
                    \/ Contains(asset_lower, NpmHint)))
            \/ EndsWith(asset_lower, TarGz)
        THEN "node_package"
    ELSE IF repo_format # "docker" /\ ContainsAny(asset_lower, DockerManifestNames)
        THEN "docker_manifest"
    ELSE IF EndsWithAny(asset_lower, ArchiveExts) THEN "archive"
    ELSE IF EndsWithAny(asset_lower, TarExts) /\ repo_format # "docker"
        THEN "archive"
    ELSE IF EndsWithAny(asset_lower, ExecutableExts) THEN "binary_executable"
    ELSE IF EndsWithAny(asset_lower, ScriptExts) THEN "script"
    ELSE IF EndsWithAny(asset_lower, ConfigExts) THEN "configuration"
    ELSE IF \/ ContainsAny(asset_lower, SbomNames)
            \/ (EndsWith(asset_lower, JsonExt) /\ Contains(asset_lower, SbomHint))
        THEN "sbom"
    ELSE IF ContainsAny(asset_lower, SecurityReportNames) THEN "security_report"
    ELSE IF repo_format = "maven2" THEN "maven_artifact"
    ELSE IF repo_format = "nuget" THEN "nuget_package"
    ELSE IF repo_format = "raw" THEN "raw_file"
    ELSE "unknown"

\* a classifier that lacks the final return 'unknown': a name no rule
\* matches gives None
DetectArtifactTypeNoFallback(asset_name, repo_format) ==
    LET artifact_type == DetectRules(Lower(asset_name), repo_format) IN
    IF artifact_type = "unknown" THEN "none" ELSE artifact_type

DetectArtifactType(asset_name, repo_format) ==
    DetectRules(Lower(asset_name), repo_format)

(***************************************************************************)
(* determine_scan_strategy                                                 *)
(***************************************************************************)

\* the strategy dict as first assigned, before any branch updates it
DefaultStrategy ==
    [scan_type |-> "fs", extract_before_scan |-> FALSE,
     scan_as_archive |-> FALSE, skip_scan |-> FALSE, reason |-> <<>>]

\* dict.update: the fields of upd replace those of strategy
Update(strategy, upd) ==
    [k \in DOMAIN strategy |-> IF k \in DOMAIN upd THEN upd[k] ELSE strategy[k]]

DetermineScanStrategy(artifact_type, file_path, repo_format) ==
    IF artifact_type \in {"java_jar", "maven_artifact"} THEN
        Update(DefaultStrategy,
               [scan_type |-> "fs", scan_as_archive |-> TRUE, reason |-> <<"J","a","v","a"," ","a","r","c","h","i","v","e"," ","-"," ","s","c","a","n"," ","f","o","r"," ","d","e","p","e","n","d","e","n","c","i","e","s"," ","a","n","d"," ","v","u","l","n","e","r","a","b","i","l","i","t","i","e","s">>])
    ELSE IF artifact_type = "container_image" \/ repo_format = "docker" THEN
        Update(DefaultStrategy,
               [scan_type |-> "image", extract_before_scan |-> FALSE,
                reason |-> <<"C","o","n","t","a","i","n","e","r"," ","i","m","a","g","e"," ","-"," ","s","c","a","n"," ","w","i","t","h"," ","T","r","i","v","y"," ","i","m","a","g","e"," ","s","c","a","n","n","e","r">>])
    ELSE IF artifact_type = "python_package" THEN
        Update(DefaultStrategy,
               [scan_type |-> "fs", scan_as_archive |-> TRUE, reason |-> <<"P","y","t","h","o","n"," ","p","a","c","k","a","g","e"," ","-"," ","s","c","a","n"," ","f","o","r"," ","d","e","p","e","n","d","e","n","c","i","e","s">>])
    ELSE IF artifact_type = "node_package" THEN
        (IF EndsWith(file_path, Tgz) \/ EndsWith(file_path, TarGz) THEN
            Update(DefaultStrategy,
                   [scan_type |-> "fs", extract_before_scan |-> TRUE,
                    scan_as_archive |-> FALSE, reason |-> <<"N","o","d","e","/","n","p","m"," ","p","a","c","k","a","g","e"," ","(",".","t","g","z",")"," ","-"," ","e","x","t","r","a","c","t"," ","a","n","d"," ","s","c","a","n"," ","f","o","r"," ","d","e","p","e","n","d","e","n","c","i","e","s">>])
         ELSE
            Update(DefaultStrategy,
                   [scan_type |-> "fs", scan_as_archive |-> TRUE, reason |-> <<"N","o","d","e","/","n","p","m"," ","p","a","c","k","a","g","e"," ","-"," ","s","c","a","n"," ","f","o","r"," ","d","e","p","e","n","d","e","n","c","i","e","s">>]))
    ELSE IF artifact_type = "nuget_package" THEN
        Update(DefaultStrategy,
               [scan_type |-> "fs", scan_as_archive |-> TRUE, reason |-> <<"N","u","G","e","t"," ","p","a","c","k","a","g","e"," ","-"," ","s","c","a","n"," ","f","o","r"," ","d","e","p","e","n","d","e","n","c","i","e","s">>])
    ELSE IF artifact_type \in {"archive", "source_code"} THEN
        Update(DefaultStrategy,
               [scan_type |-> "fs", extract_before_scan |-> TRUE,
                reason |-> <<"A","r","c","h","i","v","e","/","s","o","u","r","c","e"," ","c","o","d","e"," ","-"," ","e","x","t","r","a","c","t"," ","a","n","d"," ","s","c","a","n"," ","c","o","n","t","e","n","t","s">>])
    ELSE IF artifact_type \in {"configuration", "sbom"} THEN
        Update(DefaultStrategy, [scan_type |-> "config", reason |-> <<"C","o","n","f","i","g","u","r","a","t","i","o","n","/","S","B","O","M"," ","f","i","l","e"," ","-"," ","s","c","a","n"," ","f","o","r"," ","m","i","s","c","o","n","f","i","g","u","r","a","t","i","o","n","s">>])
    ELSE IF ContainsAny(Lower(file_path), ChecksumExts) THEN
        Update(DefaultStrategy, [skip_scan |-> TRUE, reason |-> <<"H","a","s","h","/","c","h","e","c","k","s","u","m"," ","f","i","l","e"," ","-"," ","n","o","t"," ","s","c","a","n","n","a","b","l","e">>])
    ELSE IF artifact_type = "security_report" THEN
        Update(DefaultStrategy, [skip_scan |-> TRUE, reason |-> <<"E","x","i","s","t","i","n","g"," ","s","e","c","u","r","i","t","y"," ","r","e","p","o","r","t"," ","-"," ","s","k","i","p"," ","t","o"," ","a","v","o","i","d"," ","r","e","c","u","r","s","i","o","n">>])
    ELSE
        Update(DefaultStrategy,
               [scan_type |-> "fs", extract_before_scan |-> FALSE,
                reason |-> <<"U","n","k","n","o","w","n"," ","a","r","t","i","f","a","c","t"," ","t","y","p","e"," ","(">> \o TypeText(artifact_type)
                           \o <<")"," ","-"," ","a","t","t","e","m","p","t","i","n","g"," ","f","i","l","e","s","y","s","t","e","m"," ","s","c","a","n">>])

(***************************************************************************)
(* JSON values as json.loads returns them                                  *)
(***************************************************************************)

JNull == [t |-> "null"]
JStr(s) == [t |-> "str", v |-> s]
JList(q) == [t |-> "list", v |-> q]
JDict(r) == [t |-> "dict", v |-> r]

\* Python truth value of a JSON value
Truthy(j) ==
    CASE j.t = "null" -> FALSE
      [] j.t = "str"  -> j.v # ""
      [] j.t = "list" -> Len(j.v) > 0
      [] j.t = "dict" -> DOMAIN j.v # {}

\* d.get(k, default) on a dict
Get(d, k, default) == IF k \in DOMAIN d.v THEN d.v[k] ELSE default

(***************************************************************************)
(* extract_vulnerabilities                                                 *)
(***************************************************************************)

\* the record built for one finding of a section
VulnerabilityRecord(target, vuln) ==
    [target           |-> target,
     vulnerability_id |-> Get(vuln, "VulnerabilityID", JStr("")),
     pkg_name         |-> Get(vuln, "PkgName", JStr("")),
     pkg_version      |-> Get(vuln, "InstalledVersion", JStr("")),
     severity         |-> Get(vuln, "Severity", JStr("UNKNOWN")),
     title            |-> Get(vuln, "Title", JStr("")),
     description      |-> Get(vuln, "Description", JStr("")),
     fixed_version    |-> Get(vuln, "FixedVersion", JStr("")),
     references       |-> Get(vuln, "References", JList(<<>>))]

\* result.get('Vulnerabilities', []) of a section that is a dict
SectionVulns(result) == Get(result, "Vulnerabilities", JList(<<>>))

\* the loop body raises for this element of the Results list: .get on a
\* value that is not a dict, or iteration over findings that are not dicts
SectionRaises(result) ==
    \/ result.t # "dict"
    \/ LET vulns == SectionVulns(result) IN
       /\ Truthy(vulns)
       /\ \/ vulns.t # "list"
          \/ \E i \in 1..Len(vulns.v) : vulns.v[i].t # "dict"

\* a section that contributes its first finding only
SectionRecordsFirstOnly(result) ==
    LET vulns == SectionVulns(result) IN
    IF ~Truthy(vulns) THEN <<>>
    ELSE <<VulnerabilityRecord(Get(result, "Target", JStr("Unknown")),
                               vulns.v[1])>>

\* the records one section contributes
SectionRecords(result) ==
    LET vulns == SectionVulns(result) IN
    IF ~Truthy(vulns) THEN <<>>
    ELSE [i \in 1..Len(vulns.v) |->
            VulnerabilityRecord(Get(result, "Target", JStr("Unknown")), vulns.v[i])]

RECURSIVE ConcatSections(_)
ConcatSections(results) ==
    IF results = <<>> THEN <<>>
    ELSE SectionRecords(Head(results)) \o ConcatSections(Tail(results))

\* trivy_results.get('Results', []) cannot be measured or iterated as sections
ResultsRaise(results) ==
    \/ results.t = "null"
    \/ results.t = "str" /\ results.v # ""
    \/ results.t = "dict" /\ DOMAIN results.v # {}
    \/ results.t = "list" /\ \E i \in 1..Len(results.v) : SectionRaises(results.v[i])

\* extract_vulnerabilities: raised = an exception leaves the function
ExtractVulnerabilities(trivy_results) ==
    IF ~Truthy(trivy_results) THEN [raised |-> FALSE, records |-> <<>>]
    ELSE IF trivy_results.t # "dict" THEN [raised |-> TRUE, records |-> <<>>]
    ELSE LET results == Get(trivy_results, "Results", JList(<<>>)) IN
         IF ResultsRaise(results) THEN [raised |-> TRUE, records |-> <<>>]
         ELSE IF results.t = "list"
              THEN [raised |-> FALSE, records |-> ConcatSections(results.v)]
              ELSE [raised |-> FALSE, records |-> <<>>]

(***************************************************************************)
(* Inputs of a session                                                     *)
(***************************************************************************)

\* most repositories a session begins
MaxRepos == 2

\* most assets and docker components a session takes
MaxItems == 2

\* image references tried per docker component (image_references)
NumImageRefs == 3

SessionNames ==
    {<<"d","i","r","/","l","i","b",".","j","a","r">>,
     <<"n","o","d","e","-","l","i","b",".","t","g","z">>,
     <<"l","i","b",".","7","z">>,
     <<"l","i","b",".","s","h","a","2","5","6">>}

Finding(id, severity) ==
    JDict([VulnerabilityID |-> JStr(id), Severity |-> JStr(severity)])

\* structured engine outputs that parse as JSON
DocEmptyDict == JDict(<<>>)
DocNoResults == JDict([SchemaVersion |-> JStr("2")])
DocList == JList(<<JDict([Target |-> JStr("x")])>>)
DocBadSection == JDict([Results |-> JList(<<JStr("x")>>)])

\* docker components of a session, by name and version: repositories may
\* hold the same image
SessionComponents ==
    {[name |-> <<"a","p","p">>, version |-> <<"1",".","0">>]}

SessionDocs ==
    {DocEmptyDict, DocNoResults, DocList, DocBadSection,
     JDict([Results |-> JList(<<
         JDict([Target |-> JStr("package-lock.json"),
                Vulnerabilities |-> JList(<<Finding("CVE-1", "HIGH"),
                                            Finding("CVE-2", "LOW")>>)])>>)])}

\* a structured output file that is blank, or that json.loads rejects
FileBlank == [t |-> "blank"]
FileInvalid == [t |-> "invalid"]

\* one engine invocation: how subprocess.run ends, and whether the engine
\* had written its --output file by then (the exit code does not tell)
EngineRuns ==
    [exit : {"zero", "nonzero", "timeout"}, wrote : BOOLEAN]

\* what the structured output file of one engine run can hold
FileContents == {FileBlank, FileInvalid} \cup SessionDocs

(***************************************************************************)
(* Paths in the temporary directory                                        *)
(***************************************************************************)

\* safe_filename = asset_name.replace('/', '_').replace('\\', '_')
SafeFilename(name) == ReplaceChar(ReplaceChar(name, "/", "_"), "\\", "_")

Path(base, suffix) == [base |-> base, suffix |-> suffix]

\* local_path = os.path.join(self.temp_dir, safe_filename)
LocalPath(name) == Path(SafeFilename(name), "")

\* temp_extract_dir = f"{file_path}_extracted"
ExtractDir(name) == Path(SafeFilename(name), "_extracted")

\* json_output_file = f"{file_path}.trivy.json" for the path that is scanned
JsonOutputFile(name, extracted) ==
    Path(SafeFilename(name),
         IF extracted THEN "_extracted.trivy.json" ELSE ".trivy.json")

\* html_output_file = f"{file_path}.trivy.html" for the path that is scanned
HtmlOutputFile(name, extracted) ==
    Path(SafeFilename(name),
         IF extracted THEN "_extracted.trivy.html" ELSE ".trivy.html")

\* nexus_host = self.nexus_url without its scheme and trailing slash
NexusHost == <<"n","e","x","u","s",".","i","n","v","a","l","i","d">>

\* the name of the n-th repository of the cache (the names are dict keys)
RepoName(n) == <<"d", ToString(n)>>

\* image_references of scan_docker_components
ImageReferences(repo_name, component_name, component_version) ==
    <<NexusHost \o <<"/">> \o repo_name \o <<"/">> \o component_name
          \o <<":">> \o component_version,
      NexusHost \o <<"/">> \o component_name \o <<":">> \o component_version,
      component_name \o <<":">> \o component_version>>

\* safe_name = image_reference.replace('/', '_').replace(':', '_')
SafeName(image_reference) ==
    ReplaceChar(ReplaceChar(image_reference, "/", "_"), ":", "_")

\* output files of scan_docker_image_direct for one image reference
DockerJsonFile(image_reference) ==
    Path(SafeName(image_reference), "_docker.json")
DockerHtmlFile(image_reference) ==
    Path(SafeName(image_reference), "_docker.html")

SupportedArchive(name) ==
    LET archive_lower == Lower(name) IN
    \/ EndsWithAny(archive_lower,
          <<<<".","z","i","p">>, <<".","j","a","r">>, <<".","w","a","r">>>>)
    \/ EndsWith(archive_lower, TarGz) \/ EndsWith(archive_lower, Tgz)
    \/ EndsWith(archive_lower, <<".","t","a","r">>)

(***************************************************************************)
(* The scan session: scan_content_repositories                             *)
(***************************************************************************)

\* no strategy computed yet
NoStrategy == [scan_type |-> "none", extract_before_scan |-> FALSE,
               scan_as_archive |-> FALSE, skip_scan |-> FALSE, reason |-> <<>>]

\* locals of scan_with_strategy before it runs
NoScan == [extract_dir |-> FALSE, extracted |-> FALSE, returned |-> "none",
           actual_scan_path |-> Path(<<>>, ""), file_path |-> Path(<<>>, ""),
           json_exit |-> "none", html_exit |-> "none", json_file |-> "none",
           json_data |-> JNull, html_content |-> ""]

\* no docker component is being scanned
NoComponent == [name |-> <<>>, version |-> <<>>]

\* log_scan_issue / log_successful_scan: the record appended to one list
IssueRecord(item, name, type, reason) ==
    [item |-> item, asset |-> name, artifact_type |-> type, reason |-> reason]

\* a log that files an error under the warnings
LogScanIssueErrorAsWarning(issues, issue_type, rec) ==
    IF issue_type = "skip"
        THEN [issues EXCEPT !.skipped_files = Append(@, rec)]
    ELSE IF issue_type \in {"warning", "error"}
        THEN [issues EXCEPT !.warnings = Append(@, rec)]
    ELSE issues

LogScanIssue(issues, issue_type, rec) ==
    IF issue_type = "error"
        THEN [issues EXCEPT !.errors = Append(@, rec)]
    ELSE IF issue_type = "skip"
        THEN [issues EXCEPT !.skipped_files = Append(@, rec)]
    ELSE IF issue_type = "warning"
        THEN [issues EXCEPT !.warnings = Append(@, rec)]
    ELSE issues

LogSuccessfulScan(issues, rec) ==
    [issues EXCEPT !.successful_scans = Append(@, rec)]

\* a loop that downloads and scans whatever the strategy says
AfterPlanIgnoringSkip(s) == "download"

\* where the asset loop goes once the strategy is known
AfterPlan(s) == IF s.skip_scan THEN "item" ELSE "download"

SessionInit ==
    /\ pc = "repo"
    /\ n_repos = 0
    /\ n_items = 0
    /\ cur_format = "none"
    /\ cur_asset = <<>>
    /\ cur_type = "none"
    /\ cur_strategy = NoStrategy
    /\ fs = {}
    /\ scan = NoScan
    /\ stats = [repositories_scanned |-> 0, assets_scanned |-> 0,
                vulnerabilities_found |-> 0, scan_errors |-> 0]
    /\ type_counts = [t \in ArtifactTypes |-> 0]
    /\ scan_issues = [errors |-> <<>>, skipped_files |-> <<>>,
                      warnings |-> <<>>, successful_scans |-> <<>>]
    /\ all_vulnerabilities = <<>>
    /\ report = [generated |-> FALSE, severity_breakdown |-> <<>>]
    /\ image_ref = 0
    /\ cur_component = NoComponent
    /\ plans = <<>>
    /\ downloads = <<>>
    /\ engine_runs = <<>>

\* for repo_name, repo_cache_data in repository_components_cache.items()
BeginRepository ==
    /\ pc = "repo"
    /\ n_repos < MaxRepos
    /\ \E fmt \in {"raw", "docker"}, empty \in BOOLEAN :
        /\ cur_format' = fmt
        /\ pc' = IF empty THEN "repo" ELSE "item"
    /\ n_repos' = n_repos + 1
    /\ stats' = [stats EXCEPT !.repositories_scanned = @ + 1]
    /\ UNCHANGED <<n_items, cur_asset, cur_type, cur_strategy, fs, scan,
                   type_counts, scan_issues, all_vulnerabilities, image_ref,
                   plans, downloads, engine_runs>>
    /\ UNCHANGED <<report, cur_component>>
    /\ UNCHANGED <<cvars, evars, mvars, rvars, gvars, lvars>>

\* the component and asset loops of the repository are exhausted; the locals
\* of the last call of scan_with_strategy are gone
EndRepository ==
    /\ pc = "item"
    /\ pc' = "repo"
    /\ scan' = NoScan
    /\ UNCHANGED <<n_repos, n_items, cur_format, cur_asset, cur_type,
                   cur_strategy, fs, stats, type_counts, scan_issues,
                   all_vulnerabilities, image_ref, plans, downloads,
                   engine_runs>>
    /\ UNCHANGED <<report, cur_component>>
    /\ UNCHANGED <<cvars, evars, mvars, rvars, gvars, lvars>>

\* the head of the asset loop: an asset without download URL is passed over
\* (no date filter is configured: scan_artifacts_from_date is None)
PickAsset ==
    /\ pc = "item"
    /\ cur_format # "docker"
    /\ n_items < MaxItems
    /\ n_items' = n_items + 1
    /\ \E name \in SessionNames, download_url \in BOOLEAN :
        /\ cur_asset' = name
        /\ pc' = IF download_url THEN "classify" ELSE "item"
    /\ cur_type' = "none"
    /\ cur_strategy' = NoStrategy
    /\ scan' = NoScan
    /\ UNCHANGED <<n_repos, cur_format, fs, stats, type_counts, scan_issues,
                   all_vulnerabilities, image_ref, plans, downloads,
                   engine_runs>>
    /\ UNCHANGED <<report, cur_component>>
    /\ UNCHANGED <<cvars, evars, mvars, rvars, gvars, lvars>>

\* artifact_type = self.detect_artifact_type(asset_name, repo_format)
Classify ==
    /\ pc = "classify"
    /\ cur_type' = DetectArtifactType(cur_asset, cur_format)
    /\ pc' = "plan"
    /\ UNCHANGED <<n_repos, n_items, cur_format, cur_asset, cur_strategy, fs,
                   scan, stats, type_counts, scan_issues, all_vulnerabilities,
                   image_ref, plans, downloads, engine_runs>>
    /\ UNCHANGED <<report, cur_component>>
    /\ UNCHANGED <<cvars, evars, mvars, rvars, gvars, lvars>>

\* count the type, plan the scan, and skip the asset or count it as scanned
Plan ==
    /\ pc = "plan"
    /\ type_counts' = [type_counts EXCEPT ![cur_type] = @ + 1]
    /\ LET s == DetermineScanStrategy(cur_type, cur_asset, cur_format) IN
        /\ cur_strategy' = s
        /\ plans' = Append(plans, [item |-> n_items, strategy |-> s])
        /\ pc' = AfterPlan(s)
        /\ scan_issues' =
              IF AfterPlan(s) = "item"
              THEN LogScanIssue(scan_issues, "skip",
                       IssueRecord(n_items, cur_asset, cur_type, s.reason))
              ELSE scan_issues
        /\ stats' = IF AfterPlan(s) = "item" THEN stats
                    ELSE [stats EXCEPT !.assets_scanned = @ + 1]
    /\ UNCHANGED <<n_repos, n_items, cur_format, cur_asset, cur_type,
                   fs, scan, all_vulnerabilities, image_ref, downloads,
                   engine_runs>>
    /\ UNCHANGED <<report, cur_component>>
    /\ UNCHANGED <<cvars, evars, mvars, rvars, gvars, lvars>>

\* download_asset, and the branch taken when it fails
Download ==
    /\ pc = "download"
    /\ downloads' = Append(downloads, n_items)
    /\ \E ok \in BOOLEAN :
        IF ok
        THEN /\ fs' = fs \cup {LocalPath(cur_asset)}
             /\ pc' = "scan"
             /\ UNCHANGED scan_issues
        ELSE /\ fs' = fs \ {LocalPath(cur_asset)}
             /\ pc' = "item"
             /\ scan_issues' = LogScanIssue(scan_issues, "error",
                    IssueRecord(n_items, cur_asset, cur_type,
                                "Asset download failed"))
    /\ UNCHANGED <<n_repos, n_items, cur_format, cur_asset, cur_type,
                   cur_strategy, scan, stats, type_counts, all_vulnerabilities,
                   image_ref, plans, engine_runs>>
    /\ UNCHANGED <<report, cur_component>>
    /\ UNCHANGED <<cvars, evars, mvars, rvars, gvars, lvars>>

\* extract_archive(archive_path, extract_dir): "True", "False", or "raised"
\* when an exception leaves the function.  An unsupported format returns
\* False; the exception a corrupt archive raises in zipfile or tarfile is
\* caught by the handler of the function, which returns False as well
ExtractArchive(archive_path, intact) ==
    IF ~SupportedArchive(archive_path) THEN "False"
    ELSE IF intact THEN "True"
    ELSE "False"

\* scan_with_strategy up to the engine call: extract_archive when required;
\* an exception raised up to here is caught by the handler of
\* scan_with_strategy, which returns None without a scan or a cleanup
StartScan ==
    /\ pc = "scan"
    /\ IF cur_strategy.extract_before_scan
       THEN /\ fs' = fs \cup {ExtractDir(cur_asset)}
            /\ \E intact \in BOOLEAN :
                LET result == ExtractArchive(cur_asset, intact) IN
                IF result = "raised"
                THEN /\ scan' = [NoScan EXCEPT !.extract_dir = TRUE,
                                               !.returned = "None"]
                     /\ pc' = "result"
                ELSE /\ scan' = [NoScan EXCEPT
                                   !.extract_dir = TRUE,
                                   !.extracted = (result = "True"),
                                   !.actual_scan_path =
                                       IF result = "True"
                                       THEN ExtractDir(cur_asset)
                                       ELSE LocalPath(cur_asset)]
                     /\ pc' = "json_scan"
       ELSE /\ scan' = [NoScan EXCEPT
                           !.actual_scan_path = LocalPath(cur_asset)]
            /\ UNCHANGED fs
            /\ pc' = "json_scan"
    /\ UNCHANGED <<n_repos, n_items, cur_format, cur_asset, cur_type,
                   cur_strategy, stats, type_counts, scan_issues,
                   all_vulnerabilities, image_ref, plans, downloads,
                   engine_runs>>
    /\ UNCHANGED <<report, cur_component>>
    /\ UNCHANGED <<cvars, evars, mvars, rvars, gvars, lvars>>

\* scan_with_trivy(actual_scan_path, scan_type): the engine invocation with
\* --format json on the path it is given
JsonScan ==
    /\ pc = "json_scan"
    /\ engine_runs' = Append(engine_runs, n_items)
    /\ \E run \in EngineRuns :
      LET exit == run.exit  wrote == run.wrote IN
        /\ fs' = IF wrote
                 THEN fs \cup {JsonOutputFile(cur_asset, scan.extracted)}
                 ELSE fs
        /\ IF exit = "zero"
           THEN /\ pc' = "html_scan"
                /\ scan' = [scan EXCEPT !.json_exit = exit,
                                        !.file_path = scan.actual_scan_path]
           ELSE /\ pc' = "cleanup"
                /\ scan' = [scan EXCEPT !.json_exit = exit,
                                        !.file_path = scan.actual_scan_path,
                                        !.returned = "None"]
    /\ UNCHANGED <<n_repos, n_items, cur_format, cur_asset, cur_type,
                   cur_strategy, stats, type_counts, scan_issues,
                   all_vulnerabilities, image_ref, plans, downloads>>
    /\ UNCHANGED <<report, cur_component>>
    /\ UNCHANGED <<cvars, evars, mvars, rvars, gvars, lvars>>

\* scan_with_trivy: the engine invocation with --format template
HtmlScan ==
    /\ pc = "html_scan"
    /\ \E run \in EngineRuns :
      LET exit == run.exit  wrote == run.wrote IN
        /\ fs' = IF wrote
                 THEN fs \cup {HtmlOutputFile(cur_asset, scan.extracted)}
                 ELSE fs
        /\ IF exit = "timeout"
           THEN /\ pc' = "cleanup"
                /\ scan' = [scan EXCEPT !.html_exit = exit, !.returned = "None"]
           ELSE /\ pc' = "read"
                /\ scan' = [scan EXCEPT !.html_exit = exit]
    /\ UNCHANGED <<n_repos, n_items, cur_format, cur_asset, cur_type,
                   cur_strategy, stats, type_counts, scan_issues,
                   all_vulnerabilities, image_ref, plans, downloads,
                   engine_runs>>
    /\ UNCHANGED <<report, cur_component>>
    /\ UNCHANGED <<cvars, evars, mvars, rvars, gvars, lvars>>

\* scan_with_trivy: read back, parse and delete the two output files; the
\* rendered file holds text, is empty, or is "unreadable": it is not UTF-8
\* and read raises
ReadResults ==
    /\ pc = "read"
    /\ LET jf == JsonOutputFile(cur_asset, scan.extracted)
           hf == HtmlOutputFile(cur_asset, scan.extracted) IN
       \E content \in FileContents, html \in {"html", "", "unreadable"} :
        LET parsed  == jf \in fs /\ content \notin {FileBlank, FileInvalid}
            jremove == jf \in fs /\ content # FileInvalid
            hremove == hf \in fs /\ html # "unreadable"
        IN
        /\ scan' = [scan EXCEPT
                      !.returned = "tuple",
                      !.json_file = IF jf \notin fs THEN "missing"
                                    ELSE IF content = FileBlank THEN "blank"
                                    ELSE IF content = FileInvalid THEN "invalid"
                                    ELSE "parsed",
                      !.json_data = IF parsed THEN content ELSE JNull,
                      !.html_content = IF hremove THEN html ELSE ""]
        /\ fs' = (fs \ (IF jremove THEN {jf} ELSE {}))
                    \ (IF hremove THEN {hf} ELSE {})
    /\ pc' = "cleanup"
    /\ UNCHANGED <<n_repos, n_items, cur_format, cur_asset, cur_type,
                   cur_strategy, stats, type_counts, scan_issues,
                   all_vulnerabilities, image_ref, plans, downloads,
                   engine_runs>>
    /\ UNCHANGED <<report, cur_component>>
    /\ UNCHANGED <<cvars, evars, mvars, rvars, gvars, lvars>>

\* scan_with_strategy after the engine call: shutil.rmtree of the extraction
\* directory when it exists; a removal that raises is logged as a warning
\* and leaves the directory
CleanupExtract ==
    /\ pc = "cleanup"
    /\ \E rmtree_raises \in BOOLEAN :
        fs' = IF scan.extract_dir /\ ExtractDir(cur_asset) \in fs
                    /\ ~rmtree_raises
              THEN fs \ {ExtractDir(cur_asset)}
              ELSE fs
    /\ pc' = "result"
    /\ UNCHANGED <<n_repos, n_items, cur_format, cur_asset, cur_type,
                   cur_strategy, scan, stats, type_counts, scan_issues,
                   all_vulnerabilities, image_ref, plans, downloads,
                   engine_runs>>
    /\ UNCHANGED <<report, cur_component>>
    /\ UNCHANGED <<cvars, evars, mvars, rvars, gvars, lvars>>

\* vuln.update({...}) for an asset of a repository that is not docker
AssetMetadata(v, item, name, type, fmt) ==
    [target |-> v.target, vulnerability_id |-> v.vulnerability_id,
     pkg_name |-> v.pkg_name, pkg_version |-> v.pkg_version,
     severity |-> v.severity, title |-> v.title, description |-> v.description,
     fixed_version |-> v.fixed_version, references |-> v.references,
     item |-> item, repository_format |-> fmt, asset |-> name,
     artifact_type |-> type]

\* vuln.update({...}) for a docker component
DockerMetadata(v, item, ref) ==
    [target |-> v.target, vulnerability_id |-> v.vulnerability_id,
     pkg_name |-> v.pkg_name, pkg_version |-> v.pkg_version,
     severity |-> v.severity, title |-> v.title, description |-> v.description,
     fixed_version |-> v.fixed_version, references |-> v.references,
     item |-> item, repository_format |-> "docker",
     artifact_type |-> "container_image", image_reference |-> ref]

\* a test that takes every returned pair for a result
HasJsonResultsAnyTuple(sc) == sc.returned = "tuple"

\* if scan_results and scan_results[0]
HasJsonResults(sc) == sc.returned = "tuple" /\ Truthy(sc.json_data)

\* what the session does with the value scan_with_strategy returned
HandleResult ==
    /\ pc = "result"
    /\ IF HasJsonResults(scan)
       THEN LET ev == ExtractVulnerabilities(scan.json_data) IN
            IF ev.raised
            THEN /\ pc' = "aborted"
                 /\ UNCHANGED <<fs, stats, scan_issues, all_vulnerabilities>>
            ELSE /\ stats' = [stats EXCEPT
                                !.vulnerabilities_found = @ + Len(ev.records)]
                 /\ scan_issues' = LogSuccessfulScan(scan_issues,
                        IssueRecord(n_items, cur_asset, cur_type,
                                    cur_strategy.reason))
                 /\ all_vulnerabilities' = all_vulnerabilities \o
                        [i \in 1..Len(ev.records) |->
                            AssetMetadata(ev.records[i], n_items, cur_asset,
                                          cur_type, cur_format)]
                 /\ fs' = fs \ {LocalPath(cur_asset)}
                 /\ pc' = "item"
       ELSE /\ scan_issues' = LogScanIssue(scan_issues, "error",
                   IssueRecord(n_items, cur_asset, cur_type,
                               "Trivy scan failed - no results returned"))
            /\ stats' = [stats EXCEPT !.scan_errors = @ + 1]
            /\ fs' = fs \ {LocalPath(cur_asset)}
            /\ pc' = "item"
            /\ UNCHANGED all_vulnerabilities
    /\ UNCHANGED <<n_repos, n_items, cur_format, cur_asset, cur_type,
                   cur_strategy, scan, type_counts, image_ref, plans, downloads,
                   engine_runs>>
    /\ UNCHANGED <<report, cur_component>>
    /\ UNCHANGED <<cvars, evars, mvars, rvars, gvars, lvars>>

\* if repo_format == 'docker': scan_docker_components(component, ...)
DockerComponent ==
    /\ pc = "item"
    /\ cur_format = "docker"
    /\ n_items < MaxItems
    /\ n_items' = n_items + 1
    /\ image_ref' = 1
    /\ cur_component' \in SessionComponents
    /\ pc' = "docker"
    /\ UNCHANGED <<n_repos, cur_format, cur_asset, cur_type, cur_strategy,
                   fs, scan, stats, type_counts, scan_issues,
                   all_vulnerabilities, plans, downloads, engine_runs>>
    /\ UNCHANGED report
    /\ UNCHANGED <<cvars, evars, mvars, rvars, gvars, lvars>>

\* scan_docker_image_direct: what it returns and the files it leaves
DockerDirect(image_reference, jexit, jwrote, hexit, hwrote, content) ==
    LET jf == DockerJsonFile(image_reference)
        hf == DockerHtmlFile(image_reference)
        written == (IF jwrote THEN {jf} ELSE {}) \cup
                   (IF jexit = "zero" /\ hwrote THEN {hf} ELSE {})
        ev == IF content \in {FileBlank, FileInvalid}
              THEN [raised |-> FALSE, records |-> <<>>]
              ELSE ExtractVulnerabilities(content)
    IN
    IF jexit # "zero" \/ hexit = "timeout"
        THEN [vulnerabilities |-> <<>>, files |-> fs \cup written]
    ELSE IF jf \in fs \cup written
        THEN [vulnerabilities |-> IF ev.raised THEN <<>> ELSE ev.records,
              files |-> (fs \cup written) \ {jf, hf}]
    ELSE [vulnerabilities |-> <<>>, files |-> fs \cup written]

\* one turn of the loop over image_references in scan_docker_components
DockerScan ==
    /\ pc = "docker"
    /\ engine_runs' = Append(engine_runs, n_items)
    /\ \E jrun \in EngineRuns, hrun \in EngineRuns, content \in FileContents :
        LET image_reference ==
                ImageReferences(RepoName(n_repos), cur_component.name,
                                cur_component.version)[image_ref]
            r == DockerDirect(image_reference, jrun.exit, jrun.wrote,
                              hrun.exit, hrun.wrote, content)
        IN
        /\ fs' = r.files
        /\ all_vulnerabilities' = all_vulnerabilities \o
              [i \in 1..Len(r.vulnerabilities) |->
                  DockerMetadata(r.vulnerabilities[i], n_items,
                                 image_reference)]
        /\ IF Len(r.vulnerabilities) > 0 \/ image_ref = NumImageRefs
           THEN pc' = "item" /\ image_ref' = 0
           ELSE pc' = "docker" /\ image_ref' = image_ref + 1
    /\ UNCHANGED <<n_repos, n_items, cur_format, cur_asset, cur_type,
                   cur_strategy, scan, stats, type_counts, scan_issues, plans,
                   downloads>>
    /\ UNCHANGED <<report, cur_component>>
    /\ UNCHANGED <<cvars, evars, mvars, rvars, gvars, lvars>>

\* csv.DictWriter.writerows raises for a row with a key that is not a key
\* of the first row
CsvRaises(vulnerabilities) ==
    \E i \in 1..Len(vulnerabilities) :
        ~(DOMAIN vulnerabilities[i] \subseteq DOMAIN vulnerabilities[1])

\* a count that records presence only
BumpToOne(counts, key) ==
    [k \in DOMAIN counts \cup {key} |-> IF k = key THEN 1 ELSE counts[k]]

\* counts[key] = counts.get(key, 0) + 1
Bump(counts, key) ==
    [k \in DOMAIN counts \cup {key} |->
        IF k = key
        THEN (IF key \in DOMAIN counts THEN counts[key] ELSE 0) + 1
        ELSE counts[k]]

\* the loop of generate_combined_report that fills severity_counts
RECURSIVE SeverityCounts(_, _)
SeverityCounts(vulnerabilities, counts) ==
    IF vulnerabilities = <<>> THEN counts
    ELSE SeverityCounts(Tail(vulnerabilities),
                        Bump(counts, Head(vulnerabilities).severity))

\* what cleanup_downloaded_files leaves of the temporary directory.  It
\* counts the files below the directory: those in it, and those in the
\* extraction directories listed in with_files.  With none it calls os.rmdir,
\* which raises unless the directory is empty; otherwise it calls
\* shutil.rmtree, which removes everything, or raises and leaves what it had
\* not yet removed.  Either exception is caught and logged
CleanupDownloadedFiles(files, with_files, rmtree_raises, left) ==
    LET file_count == Cardinality({p \in files : p.suffix # "_extracted"}
                                  \cup with_files)
    IN
    IF files = {} THEN {}
    ELSE IF file_count = 0 THEN files
    ELSE IF rmtree_raises THEN left
    ELSE {}

\* test_connection fails or get_repositories returns nothing:
\* scan_content_repositories returns without a scan, a report or a cleanup
NoRepositories ==
    /\ pc = "repo"
    /\ n_repos = 0
    /\ pc' = "returned"
    /\ UNCHANGED <<n_repos, n_items, cur_format, cur_asset, cur_type,
                   cur_strategy, fs, scan, stats, type_counts, scan_issues,
                   all_vulnerabilities, image_ref, plans, downloads,
                   engine_runs>>
    /\ UNCHANGED <<report, cur_component>>
    /\ UNCHANGED <<cvars, evars, mvars, rvars, gvars, lvars>>

\* the end of a session that had repositories: save_results,
\* generate_combined_report, then cleanup_downloaded_files.  An extraction
\* directory holds files only if extract_archive supports the format of its
\* archive; the directory of any other archive was created and left empty
Report ==
    /\ pc = "repo"
    /\ n_repos >= 1
    /\ IF CsvRaises(all_vulnerabilities)
       THEN pc' = "report_failed" /\ UNCHANGED <<fs, report>>
       ELSE /\ pc' = "done"
            /\ report' = [generated |-> TRUE,
                          severity_breakdown |->
                              SeverityCounts(all_vulnerabilities, <<>>)]
            /\ \E with_files \in SUBSET {p \in fs : /\ p.suffix = "_extracted"
                                                    /\ SupportedArchive(p.base)},
                  rmtree_raises \in BOOLEAN,
                  left \in ((SUBSET fs) \ {{}}) \cup {fs} :
                fs' = CleanupDownloadedFiles(fs, with_files, rmtree_raises,
                                             left)
    /\ UNCHANGED <<n_repos, n_items, cur_format, cur_asset, cur_type,
                   cur_strategy, scan, stats, type_counts, scan_issues,
                   all_vulnerabilities, image_ref, cur_component, plans,
                   downloads, engine_runs>>
    /\ UNCHANGED <<cvars, evars, mvars, rvars, gvars, lvars>>

(***************************************************************************)
(* Classification and planning applied to one (name, format) input         *)
(***************************************************************************)

\* the classifier and planner have not been applied
PlanIdle ==
    /\ c_name = <<>>
    /\ c_fmt = "none"
    /\ c_pc = "idle"
    /\ c_calls = 0
    /\ c_type = "none"
    /\ c_strategy = NoStrategy

PlanInit ==
    /\ c_name \in Names
    /\ c_fmt \in Formats
    /\ c_pc = "start"
    /\ c_calls = 0
    /\ c_type = "none"
    /\ c_strategy = NoStrategy

\* most assets of the same name and format classified one after the other
MaxClassify == 2

\* artifact_type = self.detect_artifact_type(asset_name, repo_format), for the
\* first asset and, after its strategy was planned, for a later asset of the
\* same name and repository format
Detect ==
    /\ c_pc \in {"start", "planned"}
    /\ c_calls < MaxClassify
    /\ c_type' = DetectArtifactType(c_name, c_fmt)
    /\ c_calls' = c_calls + 1
    /\ c_pc' = "detected"
    /\ UNCHANGED <<c_name, c_fmt, c_strategy>>
    /\ UNCHANGED <<svars, evars, mvars, rvars, gvars, lvars>>

\* strategy = self.determine_scan_strategy(artifact_type, asset_name, repo_format)
PlanDetected ==
    /\ c_pc = "detected"
    /\ c_strategy' = DetermineScanStrategy(c_type, c_name, c_fmt)
    /\ c_pc' = "planned"
    /\ UNCHANGED <<c_name, c_fmt, c_calls, c_type>>
    /\ UNCHANGED <<svars, evars, mvars, rvars, gvars, lvars>>

\* determine_scan_strategy called with an artifact type of the caller's choice
PlanGiven ==
    /\ c_pc = "start"
    /\ \E t \in ArtifactTypes :
        /\ c_type' = t
        /\ c_strategy' = DetermineScanStrategy(t, c_name, c_fmt)
    /\ c_pc' = "planned_given"
    /\ UNCHANGED <<c_name, c_fmt, c_calls>>
    /\ UNCHANGED <<svars, evars, mvars, rvars, gvars, lvars>>

PlanNext ==
    \/ Detect
    \/ PlanDetected
    \/ PlanGiven

(***************************************************************************)
(* extract_vulnerabilities applied to one raw engine output                *)
(***************************************************************************)

\* most result sections of a raw output
MaxSections == 2

\* findings as the engine reports them: every field, the identifier only,
\* and fields present with an empty or null value
FindingFull ==
    JDict([VulnerabilityID |-> JStr("CVE-1"), PkgName |-> JStr("p"),
           InstalledVersion |-> JStr("1.0"), Severity |-> JStr("HIGH"),
           Title |-> JStr("t"), Description |-> JStr("d"),
           FixedVersion |-> JStr("1.1"),
           References |-> JList(<<JStr("u")>>)])
FindingIdOnly == JDict([VulnerabilityID |-> JStr("CVE-2")])
\* result sections: without findings (absent, empty, null), with one or two
\* findings, without target, with an empty or null target
ExtractSections ==
    {JDict([Target |-> JStr("a.jar")]),
     JDict([Target |-> JStr("b.jar"), Vulnerabilities |-> JList(<<>>)]),
     JDict([Target |-> JStr("c.jar"), Vulnerabilities |-> JNull]),
     JDict([Target |-> JStr("d.lock"),
            Vulnerabilities |-> JList(<<FindingFull>>)]),
     JDict([Target |-> JStr("e.lock"),
            Vulnerabilities |-> JList(<<FindingFull, FindingIdOnly>>)]),
     JDict([Vulnerabilities |-> JList(<<FindingIdOnly>>)]),
     JDict([Target |-> JStr(""), Vulnerabilities |-> JList(<<FindingFull>>)]),
     JDict([Target |-> JNull, Vulnerabilities |-> JList(<<FindingIdOnly>>)]),
     JDict([Target |-> JStr("h.lock"),
            Vulnerabilities |-> JList(<<JDict([VulnerabilityID |-> JStr("CVE-3"), Severity |-> JNull, Title |-> JNull, Description |-> JStr(""), References |-> JNull])>>)])}

SeqsUpTo(S, n) == UNION {[1..k -> S] : k \in 0..n}

\* raw outputs: None, documents without sections, documents of a wrong
\* shape, and documents with up to MaxSections sections
ExtractDocs ==
    {JNull, DocEmptyDict, DocNoResults, DocList, DocBadSection} \cup
    {JDict([Results |-> JList(q)]) : q \in SeqsUpTo(ExtractSections, MaxSections)}

NoExtract == [raised |-> FALSE, records |-> <<>>]

\* extract_vulnerabilities has not been applied
ExtractIdle ==
    /\ x_doc = JNull
    /\ x_pc = "idle"
    /\ x_out = NoExtract

ExtractInit ==
    /\ x_doc \in ExtractDocs
    /\ x_pc = "start"
    /\ x_out = NoExtract

\* vulnerabilities = self.extract_vulnerabilities(json_data)
Extract ==
    /\ x_pc = "start"
    /\ x_out' = ExtractVulnerabilities(x_doc)
    /\ x_pc' = "extracted"
    /\ UNCHANGED x_doc
    /\ UNCHANGED <<cvars, svars, mvars, rvars, gvars, lvars>>

(***************************************************************************)
(* enhance_nodejs_package_for_scanning on one extracted tree               *)
(*                                                                         *)
(* A directory is named by the dependency names on its path: <<>> is the   *)
(* extraction directory, <<"a">> is node_modules/a below it, <<"a","b">>   *)
(* is node_modules/a/node_modules/b.                                       *)
(***************************************************************************)

\* most calls made on one tree
MaxCalls == 2

\* the orders in which os.scandir can list the two subdirectories of a
\* node_modules directory (the order is that of the file system)
SiblingOrders == {<<"a", "b">>, <<"b", "a">>}

\* os.walk from directory d, whose subdirectories are listed in order o
SubtreeOrder(d, o) == <<d, d \o <<o[1]>>, d \o <<o[2]>>>>

\* the orders in which os.walk (top-down) can visit the directories
WalkOrders ==
    {<< <<>> >> \o SubtreeOrder(<<o[1]>>, p) \o SubtreeOrder(<<o[2]>>, q) :
        o \in SiblingOrders, p \in SiblingOrders, q \in SiblingOrders}

\* declared version ranges
V1 == <<"^","1",".","3",".","0">>
V3 == <<"2",".","0">>

\* str.lstrip(chars)
RECURSIVE LStrip(_, _)
LStrip(s, chars) ==
    IF s # <<>> /\ Head(s) \in chars THEN LStrip(Tail(s), chars) ELSE s

\* clean_version = dep_version.lstrip('^~>=<')
CleanVersion(dep_version) == LStrip(dep_version, {"^", "~", ">", "=", "<"})

\* files a directory can hold
NoManifest == [t |-> "none"]
InvalidManifest == [t |-> "invalid"]
Manifest(name, version, dependencies) ==
    [t |-> "dict", name |-> name, version |-> version,
     dependencies |-> dependencies]
NoLocks == <<>>
OriginalLock == [t |-> "original"]

\* the value of the "dependencies" key of a manifest
DepsAbsent == [t |-> "absent"]
DepsList == [t |-> "list"]      \* a list that is not empty
\* a JSON object: its values by key, and its keys in the order of the file,
\* which is the order dependencies.items() gives them in
DepsMap(D, keys) == [t |-> "map", v |-> D, keys |-> keys]

\* root manifests: no dependencies key, null, a list, a non-string version,
\* a map that mixes a version range with a non-string version, or a map of
\* names to version ranges; a map of two names in either order of its keys
RootManifests ==
    LET KeyOrders(S) ==
            {keys \in [1..Cardinality(S) -> S] :
                \A i, j \in 1..Cardinality(S) : keys[i] = keys[j] => i = j}
        ranges == {JStr(v) :
                     v \in {V1, <<">","=","1",".","0"," ","<","2">>, V3}}
        mixed == [k \in {"a", "b"} |->
                     IF k = "a" THEN JStr(V1) ELSE [t |-> "num"]]
    IN
    {InvalidManifest} \cup
    {Manifest("app", V3, deps) :
        deps \in {DepsAbsent, [t |-> "null"], DepsList,
                  DepsMap([k \in {"a"} |-> [t |-> "num"]], <<"a">>)}
                 \cup {DepsMap(mixed, keys) : keys \in KeyOrders({"a", "b"})}
                 \cup UNION {{DepsMap(D, keys) : keys \in KeyOrders(DOMAIN D)} :
                         D \in UNION {[S -> ranges] :
                                        S \in SUBSET {"a", "b"}}}}

\* a package bundled in node_modules/a of the tree, or a package of its own
BundledManifests ==
    {InvalidManifest,
     Manifest("a", V3, DepsAbsent),
     Manifest("a", V3, DepsMap([k \in {"b"} |-> JStr(V1)], <<"b">>))}

Entry(manifest, locks) == [manifest |-> manifest, locks |-> locks]

\* the extracted trees the synthesis is applied to
SynthTrees ==
    LET roots == {Entry(m, l) :
                    m \in RootManifests,
                    l \in {NoLocks,
                           [n \in {"yarn.lock"} |-> OriginalLock],
                           [n \in {"package-lock.json"} |-> OriginalLock]}}
        bundled == {Entry(m, l) :
                    m \in BundledManifests,
                    l \in {NoLocks,
                           [n \in {"package-lock.json"} |-> OriginalLock]}}
        malformed == {Entry(m, NoLocks) :
                        m \in {InvalidManifest, Manifest("b", V3, DepsList)}}
    IN {[d \in {<<>>} |-> r] : r \in roots} \cup
       {[d \in {<<>>, <<"a">>} |-> IF d = <<>> THEN r ELSE b] :
            r \in roots, b \in bundled} \cup
       {[d \in {<<>>, <<"a">>, <<"b">>} |->
            IF d = <<>> THEN r ELSE IF d = <<"a">> THEN b ELSE x] :
            r \in roots, b \in bundled, x \in malformed}

\* a test that never finds a lock file
HasLockFileNever(entry) == FALSE

\* has_lock_file = any(os.path.exists(os.path.join(package_dir, lock_file)) ...)
HasLockFile(entry) ==
    \E n \in {"package-lock.json", "yarn.lock", "pnpm-lock.yaml"} :
        n \in DOMAIN entry.locks

\* an exception is raised between reading the manifest and writing the lock
SynthesisRaises(dependencies) ==
    \/ dependencies.t \in {"null", "list"}
    \/ /\ dependencies.t = "map"
       /\ \E k \in DOMAIN dependencies.v : dependencies.v[k].t # "str"

\* lock_data, by its dependency-carrying sections
LockData(name, version, D) ==
    [t |-> "synth", name |-> name, version |-> version,
     packages |-> [k \in DOMAIN D |-> CleanVersion(D[k].v)],
     dependencies |-> [k \in DOMAIN D |-> CleanVersion(D[k].v)]]

\* the body of the loop over package_json_files for the manifest of one
\* directory
ProcessManifest(tree, d) ==
    LET e == tree[d] IN
    IF HasLockFile(e) THEN tree
    ELSE IF e.manifest.t # "dict" THEN tree
    ELSE IF SynthesisRaises(e.manifest.dependencies) THEN tree
    ELSE
      LET D == IF e.manifest.dependencies.t = "absent" THEN <<>>
               ELSE e.manifest.dependencies.v
          lock_data == LockData(e.manifest.name, e.manifest.version, D)
          dep_dirs == {d \o <<k>> : k \in DOMAIN D}
      IN [x \in DOMAIN tree \cup dep_dirs |->
            IF x = d
            THEN Entry(e.manifest,
                       [n \in DOMAIN e.locks \cup {"package-lock.json"} |->
                           IF n = "package-lock.json" THEN lock_data
                           ELSE e.locks[n]])
            ELSE IF x \in dep_dirs
            THEN Entry(Manifest(x[Len(x)], CleanVersion(D[x[Len(x)]].v),
                                DepsAbsent),
                       IF x \in DOMAIN tree THEN tree[x].locks ELSE NoLocks)
            ELSE tree[x]]

RECURSIVE ProcessAll(_, _)
ProcessAll(tree, package_json_files) ==
    IF package_json_files = <<>> THEN tree
    ELSE ProcessAll(ProcessManifest(tree, Head(package_json_files)),
                    Tail(package_json_files))

\* the manifests os.walk finds before any of them is processed
PackageJsonFiles(tree, walk) ==
    LET idx == {i \in 1..Len(walk) :
                    /\ walk[i] \in DOMAIN tree
                    /\ tree[walk[i]].manifest # NoManifest}
        Nth[n \in 0..Cardinality(idx)] ==
            IF n = 0 THEN 0
            ELSE CHOOSE i \in idx : i > Nth[n - 1] /\
                    \A j \in idx : j > Nth[n - 1] => i <= j
    IN [n \in 1..Cardinality(idx) |-> walk[Nth[n]]]

EnhanceNodejsPackageForScanning(tree, walk) ==
    ProcessAll(tree, PackageJsonFiles(tree, walk))

\* json_helper.create_package_lock(package_json_file, output_dir) for the
\* manifest of directory d and that directory as output_dir: the lock file is
\* written whether or not the directory holds one
CreatePackageLock(tree, d) ==
    LET e == tree[d]
        deps == e.manifest.dependencies
    IN
    IF e.manifest.t # "dict" THEN tree
    ELSE IF deps.t = "list" THEN tree
    ELSE IF deps.t = "map" /\ (\E k \in DOMAIN deps.v : deps.v[k].t # "str")
        THEN tree
    ELSE
      LET D == IF deps.t = "map" THEN deps.v ELSE <<>>
          lock_data == LockData(e.manifest.name, e.manifest.version, D)
      IN [tree EXCEPT ![d] =
            Entry(e.manifest,
                  [n \in DOMAIN e.locks \cup {"package-lock.json"} |->
                      IF n = "package-lock.json" THEN lock_data
                      ELSE e.locks[n]])]

\* json_helper.create_node_modules_structure(package_json_file, output_dir)
\* for the manifest of directory d and that directory as output_dir: the loop
\* writes one dependency per turn, in the order of the keys, and ends at the
\* first version that is not a string, where lstrip raises
CreateNodeModulesStructure(tree, d) ==
    LET e == tree[d]
        deps == e.manifest.dependencies
    IN
    IF e.manifest.t # "dict" THEN tree
    ELSE IF deps.t # "map" THEN tree
    ELSE
      LET raising == {i \in 1..Len(deps.keys) : deps.v[deps.keys[i]].t # "str"}
          turns == IF raising = {} THEN Len(deps.keys)
                   ELSE (CHOOSE i \in raising : \A j \in raising : i <= j) - 1
          dep_dirs == {d \o <<deps.keys[i]>> : i \in 1..turns}
      IN
      [x \in DOMAIN tree \cup dep_dirs |->
          IF x \in dep_dirs
          THEN Entry(Manifest(x[Len(x)], CleanVersion(deps.v[x[Len(x)]].v),
                              DepsAbsent),
                     IF x \in DOMAIN tree THEN tree[x].locks ELSE NoLocks)
          ELSE tree[x]]

\* the synthesis has no tree
SynthIdle ==
    /\ m_tree = <<>>
    /\ m_prev = <<>>
    /\ m_calls = 0
    /\ m_op = "none"

SynthInit ==
    /\ m_tree \in SynthTrees
    /\ m_prev = m_tree
    /\ m_calls = 0
    /\ m_op = "none"

\* self.enhance_nodejs_package_for_scanning(extract_dir)
Enhance ==
    /\ m_calls < MaxCalls
    /\ m_prev' = m_tree
    /\ \E walk \in WalkOrders :
          m_tree' = EnhanceNodejsPackageForScanning(m_tree, walk)
    /\ m_calls' = m_calls + 1
    /\ m_op' = "enhance"
    /\ UNCHANGED <<cvars, svars, evars, rvars, gvars, lvars>>

\* json_helper.py create_lock <package_json_file> <output_dir>
CreateLock ==
    /\ m_calls < MaxCalls
    /\ m_prev' = m_tree
    /\ \E d \in DOMAIN m_tree : m_tree' = CreatePackageLock(m_tree, d)
    /\ m_calls' = m_calls + 1
    /\ m_op' = "create_lock"
    /\ UNCHANGED <<cvars, svars, evars, rvars, gvars, lvars>>

\* json_helper.py create_modules <package_json_file> <output_dir>
CreateModules ==
    /\ m_calls < MaxCalls
    /\ m_prev' = m_tree
    /\ \E d \in DOMAIN m_tree : m_tree' = CreateNodeModulesStructure(m_tree, d)
    /\ m_calls' = m_calls + 1
    /\ m_op' = "create_modules"
    /\ UNCHANGED <<cvars, svars, evars, rvars, gvars, lvars>>

SynthNext ==
    \/ Enhance
    \/ CreateLock
    \/ CreateModules

(***************************************************************************)
(* generate_combined_report: the repository summary                        *)
(***************************************************************************)

\* most records given to the report
MaxVulns == 3

\* vulnerability records, by the keys the summary reads
ReportRecords ==
    {[repository |-> r, component |-> c, severity |-> "HIGH"] :
        r \in {"releases", "snapshots"}, c \in {"a", "b", "c"}}

\* the loop over the records that fills repo_summary
RECURSIVE RepoSummary(_, _)
RepoSummary(vulnerabilities, repo_summary) ==
    IF vulnerabilities = <<>> THEN repo_summary
    ELSE
      LET vuln == Head(vulnerabilities)
          repo == vuln.repository
          old == IF repo \in DOMAIN repo_summary THEN repo_summary[repo]
                 ELSE [total_vulnerabilities |-> 0, components_with_vulnerabilities |-> {}, severity_breakdown |-> <<>>]
          new == [total_vulnerabilities |-> old.total_vulnerabilities + 1,
                  components_with_vulnerabilities |->
                      old.components_with_vulnerabilities \cup {vuln.component},
                  severity_breakdown |->
                      Bump(old.severity_breakdown, vuln.severity)]
      IN RepoSummary(Tail(vulnerabilities),
                     [r \in DOMAIN repo_summary \cup {repo} |->
                         IF r = repo THEN new ELSE repo_summary[r]])

\* list(s) of a set of strings: the elements once each, in the iteration
\* order of the set, which is any order
ListsOfSet(s) ==
    {q \in [1..Cardinality(s) -> s] : \A x \in s : \E i \in DOMAIN q : q[i] = x}

\* the generate_combined_report has no input
ReportIdle ==
    /\ r_vulns = <<>>
    /\ r_pc = "idle"
    /\ r_summary = <<>>

ReportInit ==
    /\ r_vulns \in SeqsUpTo(ReportRecords, MaxVulns)
    /\ r_pc = "start"
    /\ r_summary = <<>>

\* generate_combined_report up to the conversion of the sets to lists
GenerateCombinedReport ==
    /\ r_pc = "start"
    /\ LET repo_summary == RepoSummary(r_vulns, <<>>) IN
       \E lists \in [DOMAIN repo_summary -> UNION {ListsOfSet(
                        repo_summary[r].components_with_vulnerabilities) :
                        r \in DOMAIN repo_summary}] :
          /\ \A r \in DOMAIN repo_summary :
                lists[r] \in ListsOfSet(
                    repo_summary[r].components_with_vulnerabilities)
          /\ r_summary' =
                [r \in DOMAIN repo_summary |->
                    [total_vulnerabilities |->
                         repo_summary[r].total_vulnerabilities,
                     components_with_vulnerabilities |-> lists[r],
                     unique_components_with_vulns |-> Len(lists[r]),
                     severity_breakdown |->
                         repo_summary[r].severity_breakdown]]
    /\ r_pc' = "reported"
    /\ UNCHANGED r_vulns
    /\ UNCHANGED <<cvars, svars, evars, mvars, gvars, lvars>>

(***************************************************************************)
(* get_repository_components: pagination                                   *)
(***************************************************************************)

\* most page requests of one call
MaxPages == 4

\* the components of the page with the given number
PageItems(page, count) == [i \in 1..count |-> [page |-> page, n |-> i]]

\* what a page request can give: no response (timeout, connection error), a
\* status other than 200, a 200 whose body is not the expected JSON, or a
\* page of items with or without a continuation token
PageResponses ==
    {[kind |-> k, count |-> 0, token |-> FALSE] :
        k \in {"timeout", "404", "403", "500", "malformed"}} \cup
    {[kind |-> "ok", count |-> c, token |-> t] : c \in {0, 2}, t \in BOOLEAN}

\* get_repository_components has not been called
PagesIdle ==
    /\ g_pc = "idle"
    /\ g_components = <<>>
    /\ g_token = FALSE
    /\ g_responses = <<>>
    /\ g_returned = <<>>

\* components = [], continuation_token = None
PagesInit ==
    /\ g_pc = "loop"
    /\ g_components = <<>>
    /\ g_token = FALSE
    /\ g_responses = <<>>
    /\ g_returned = <<>>

\* one turn of the while loop, and the return when the loop is left
GetPage ==
    /\ g_pc = "loop"
    /\ Len(g_responses) < MaxPages
    /\ \E resp \in PageResponses :
        LET batch_components == PageItems(Len(g_responses) + 1, resp.count) IN
        /\ g_responses' = Append(g_responses, resp)
        /\ IF resp.kind \in {"timeout", "500", "malformed"}
           THEN /\ g_pc' = "returned"
                /\ g_returned' = <<>>
                /\ UNCHANGED <<g_components, g_token>>
           ELSE IF resp.kind \in {"404", "403"}
           THEN /\ g_pc' = "returned"
                /\ g_returned' = g_components
                /\ UNCHANGED <<g_components, g_token>>
           ELSE /\ g_components' = g_components \o batch_components
                /\ g_token' = resp.token
                /\ IF resp.token
                   THEN g_pc' = "loop" /\ UNCHANGED g_returned
                   ELSE /\ g_pc' = "returned"
                        /\ g_returned' = g_components \o batch_components
    /\ UNCHANGED <<cvars, svars, evars, mvars, rvars, lvars>>

(***************************************************************************)
(* The scanner's log and monitor_progress.parse_log_progress               *)
(***************************************************************************)

\* most assets logged in one log file
MaxLogged == 2

\* numbers of findings of one scanned asset
FindingCounts == {0, 1, 2, 12}

LoggedAssets == {<<"l","i","b",".","j","a","r">>, <<"a","p","p",".","z","i","p">>}

DigitChars == <<"0", "1", "2", "3", "4", "5", "6", "7", "8", "9">>

\* str(n) as an f-string interpolates it
RECURSIVE Str(_)
Str(n) ==
    IF n < 10 THEN <<DigitChars[n + 1]>>
    ELSE Str(n \div 10) \o <<DigitChars[(n % 10) + 1]>>

\* int(digits)
RECURSIVE ParseInt(_)
ParseInt(digits) ==
    IF digits = <<>> THEN 0
    ELSE 10 * ParseInt(SubSeq(digits, 1, Len(digits) - 1))
         + ((CHOOSE i \in 1..10 : DigitChars[i] = digits[Len(digits)]) - 1)

FoundWord == <<"F","o","u","n","d"," ">>

VulnerabilitiesWord == <<" ","v","u","l","n","e","r","a","b","i","l","i","t","i","e","s">>

\* f"    SCANNING: {asset_name} (Type: {artifact_type})"
ScanningLine(asset_name, artifact_type) ==
    <<" "," "," "," ","S","C","A","N","N","I","N","G",":"," ">> \o asset_name \o <<" ","(","T","y","p","e",":"," ">> \o TypeText(artifact_type) \o <<")">>

\* f"    SCAN RESULT: Found {vuln_count} vulnerabilities"
ScanResultLine(vuln_count) ==
    <<" "," "," "," ","S","C","A","N"," ","R","E","S","U","L","T",":"," ","F","o","u","n","d"," ">> \o Str(vuln_count) \o VulnerabilitiesWord

\* the message log_successful_scan writes
SuccessfulScanLine(asset_name, vuln_count) ==
    IF vuln_count > 0
    THEN <<"S","u","c","c","e","s","s","f","u","l","l","y"," ","s","c","a","n","n","e","d"," ">> \o asset_name \o <<" ","-"," ","F","o","u","n","d"," ">> \o Str(vuln_count)
         \o VulnerabilitiesWord
    ELSE <<"S","u","c","c","e","s","s","f","u","l","l","y"," ","s","c","a","n","n","e","d"," ">> \o asset_name \o <<" ","-"," ","N","o"," ","v","u","l","n","e","r","a","b","i","l","i","t","i","e","s"," ","f","o","u","n","d">>

\* f"Found {len(vulnerabilities)} vulnerabilities in {asset_name}"
FoundInLine(vuln_count, asset_name) ==
    FoundWord \o Str(vuln_count) \o VulnerabilitiesWord \o <<" ","i","n"," ">> \o asset_name

\* f"    DOWNLOAD FAILED: Could not download {asset_name}"
DownloadFailedLine(asset_name) ==
    <<" "," "," "," ","D","O","W","N","L","O","A","D"," ","F","A","I","L","E","D",":"," ","C","o","u","l","d"," ","n","o","t"," ","d","o","w","n","l","o","a","d"," ">> \o asset_name

\* the digits that follow position i of the line
RECURSIVE DigitRun(_, _)
DigitRun(line, i) ==
    IF i <= Len(line) /\ (\E k \in 1..10 : DigitChars[k] = line[i])
    THEN <<line[i]>> \o DigitRun(line, i + 1) ELSE <<>>

\* vulnerability_pattern matches at position i of the line
MatchesAt(line, i) ==
    /\ i + Len(FoundWord) - 1 <= Len(line)
    /\ SubSeq(line, i, i + Len(FoundWord) - 1) = FoundWord
    /\ LET digits == DigitRun(line, i + Len(FoundWord))
           rest == i + Len(FoundWord) + Len(digits)
       IN /\ digits # <<>>
          /\ rest + Len(VulnerabilitiesWord) - 1 <= Len(line)
          /\ SubSeq(line, rest, rest + Len(VulnerabilitiesWord) - 1)
                = VulnerabilitiesWord

\* vulnerability_pattern.search(line): int(group(1)) of the leftmost match,
\* and 0 where the line has none
VulnerabilityMatch(line) ==
    LET at == {i \in 1..Len(line) : MatchesAt(line, i)} IN
    IF at = {} THEN 0
    ELSE LET i == CHOOSE k \in at : \A j \in at : k <= j
         IN ParseInt(DigitRun(line, i + Len(FoundWord)))

\* the loop of parse_log_progress that counts totals from the entire log
RECURSIVE CountTotals(_, _)
CountTotals(lines, progress) ==
    IF lines = <<>> THEN progress
    ELSE CountTotals(Tail(lines),
            [assets_scanned |->
                progress.assets_scanned
                + (IF Contains(Head(lines), <<"S","C","A","N","N","I","N","G",":">>) THEN 1 ELSE 0),
             vulnerabilities_found |->
                progress.vulnerabilities_found
                + VulnerabilityMatch(Head(lines))])

\* parse_log_progress, by its two totals
ParseLogProgress(lines) ==
    CountTotals(lines, [assets_scanned |-> 0, vulnerabilities_found |-> 0])

NoProgress == [assets_scanned |-> 0, vulnerabilities_found |-> 0]

\* the asset loop is between two assets
NoLogged == [at |-> "idle", asset_name |-> <<>>, vuln_count |-> 0]

\* no log is being written
MonitorIdle ==
    /\ l_log = <<>>
    /\ l_stats = NoProgress
    /\ l_progress = [t |-> "none"]
    /\ l_snapshot = [t |-> "idle"]
    /\ l_cur = NoLogged

\* a scanner that has logged nothing yet, and a monitor that has not read
MonitorInit ==
    /\ l_log = <<>>
    /\ l_stats = NoProgress
    /\ l_progress = [t |-> "none"]
    /\ l_snapshot = [t |-> "none"]
    /\ l_cur = NoLogged

\* The asset loop for one asset that is not skipped, statement by statement:
\* the monitor is another process and reads the log between any two of them.
\* Messages that match neither pattern of parse_log_progress are left out.

\* self.logger.info(f"    SCANNING: {asset_name} (Type: {artifact_type})")
LogScanning ==
    /\ l_cur.at = "idle"
    /\ l_stats.assets_scanned < MaxLogged
    /\ \E asset_name \in LoggedAssets :
        /\ l_log' = Append(l_log, ScanningLine(asset_name,
                                  DetectArtifactType(asset_name, "raw")))
        /\ l_cur' = [at |-> "count", asset_name |-> asset_name, vuln_count |-> 0]
    /\ UNCHANGED <<l_stats, l_progress, l_snapshot>>
    /\ UNCHANGED <<cvars, svars, evars, mvars, rvars, gvars>>

\* self.stats['assets_scanned'] += 1
CountScanned ==
    /\ l_cur.at = "count"
    /\ l_stats' = [l_stats EXCEPT !.assets_scanned = @ + 1]
    /\ l_cur' = [l_cur EXCEPT !.at = "download"]
    /\ UNCHANGED <<l_log, l_progress, l_snapshot>>
    /\ UNCHANGED <<cvars, svars, evars, mvars, rvars, gvars>>

\* if self.download_asset(download_url, local_path): ... else: the error
LogDownload ==
    /\ l_cur.at = "download"
    /\ \E ok \in BOOLEAN :
        IF ok
        THEN /\ l_cur' = [l_cur EXCEPT !.at = "scan"]
             /\ UNCHANGED l_log
        ELSE /\ l_cur' = NoLogged
             /\ l_log' = Append(l_log, DownloadFailedLine(l_cur.asset_name))
    /\ UNCHANGED <<l_stats, l_progress, l_snapshot>>
    /\ UNCHANGED <<cvars, svars, evars, mvars, rvars, gvars>>

\* scan_with_strategy returns: self.stats['vulnerabilities_found'] +=
\* vuln_count for a result, the warning for none
LogScanned ==
    /\ l_cur.at = "scan"
    /\ \E has_results \in BOOLEAN, vuln_count \in FindingCounts :
        IF has_results
        THEN /\ l_stats' = [l_stats EXCEPT !.vulnerabilities_found = @ + vuln_count]
             /\ l_cur' = [l_cur EXCEPT !.at = "result", !.vuln_count = vuln_count]
             /\ UNCHANGED l_log
        ELSE /\ l_log' = Append(l_log, <<" "," "," "," ","S","C","A","N"," ","F","A","I","L","E","D",":"," ","T","r","i","v","y"," ","s","c","a","n"," ","r","e","t","u","r","n","e","d"," ","n","o"," ","r","e","s","u","l","t","s">>)
             /\ l_cur' = NoLogged
             /\ UNCHANGED l_stats
    /\ UNCHANGED <<l_progress, l_snapshot>>
    /\ UNCHANGED <<cvars, svars, evars, mvars, rvars, gvars>>

\* self.logger.info(f"    SCAN RESULT: Found {vuln_count} vulnerabilities")
LogScanResult ==
    /\ l_cur.at = "result"
    /\ l_log' = Append(l_log, ScanResultLine(l_cur.vuln_count))
    /\ l_cur' = [l_cur EXCEPT !.at = "success"]
    /\ UNCHANGED <<l_stats, l_progress, l_snapshot>>
    /\ UNCHANGED <<cvars, svars, evars, mvars, rvars, gvars>>

\* self.log_successful_scan(asset_info, scan_details)
LogSuccess ==
    /\ l_cur.at = "success"
    /\ l_log' = Append(l_log, SuccessfulScanLine(l_cur.asset_name,
                                                 l_cur.vuln_count))
    /\ l_cur' = [l_cur EXCEPT !.at = "found"]
    /\ UNCHANGED <<l_stats, l_progress, l_snapshot>>
    /\ UNCHANGED <<cvars, svars, evars, mvars, rvars, gvars>>

\* if vulnerabilities: self.logger.info(f"Found {n} vulnerabilities in ...")
LogFound ==
    /\ l_cur.at = "found"
    /\ l_log' = IF l_cur.vuln_count > 0
                THEN Append(l_log, FoundInLine(l_cur.vuln_count,
                                               l_cur.asset_name))
                ELSE l_log
    /\ l_cur' = NoLogged
    /\ UNCHANGED <<l_stats, l_progress, l_snapshot>>
    /\ UNCHANGED <<cvars, svars, evars, mvars, rvars, gvars>>

\* progress = parse_log_progress(log_file)
Monitor ==
    /\ l_progress' = [t |-> "progress", v |-> ParseLogProgress(l_log)]
    /\ l_snapshot' = [t |-> "stats", v |-> l_stats, at |-> l_cur.at]
    /\ UNCHANGED <<l_log, l_stats, l_cur>>
    /\ UNCHANGED <<cvars, svars, evars, mvars, rvars, gvars>>

MonitorNext ==
    \/ LogScanning
    \/ CountScanned
    \/ LogDownload
    \/ LogScanned
    \/ LogScanResult
    \/ LogSuccess
    \/ LogFound
    \/ Monitor

\* a fresh scanner that writes its log while the monitor reads it
InitMonitor ==
    PlanIdle /\ SessionInit /\ ExtractIdle /\ SynthIdle /\ ReportIdle /\ PagesIdle
    /\ MonitorInit

\* the scanner logging assets, and the monitor parsing the log at any time
SpecMonitor == InitMonitor /\ [][MonitorNext]_vars

\* a fresh scanner about to report one list of records
InitReport == PlanIdle /\ SessionInit /\ ExtractIdle /\ SynthIdle /\ ReportInit /\ PagesIdle /\ MonitorIdle

\* generate_combined_report applied to every list of records of the domain
SpecReport == InitReport /\ [][GenerateCombinedReport]_vars

\* a fresh scanner about to list the components of one repository
InitPages ==
    PlanIdle /\ SessionInit /\ ExtractIdle /\ SynthIdle /\ ReportIdle /\ PagesInit
    /\ MonitorIdle

\* get_repository_components against every server behaviour of the domain
SpecPages == InitPages /\ [][GetPage]_vars

\* a fresh scanner about to classify one input of the domain
InitPlan == PlanInit /\ SessionInit /\ ExtractIdle /\ SynthIdle /\ ReportIdle /\ PagesIdle /\ MonitorIdle

\* a fresh scanner about to normalise one raw engine output
InitExtract == PlanIdle /\ SessionInit /\ ExtractInit /\ SynthIdle /\ ReportIdle /\ PagesIdle /\ MonitorIdle

\* extract_vulnerabilities applied to every raw output of the domain
SpecExtract == InitExtract /\ [][Extract]_vars

\* a fresh scanner about to enhance one extracted tree
InitSynth == PlanIdle /\ SessionInit /\ ExtractIdle /\ SynthInit /\ ReportIdle /\ PagesIdle /\ MonitorIdle

\* the synthesis and the helper script applied, up to MaxCalls times in all,
\* to every tree of the domain
SpecSynth == InitSynth /\ [][SynthNext]_vars

\* the classifier and planner applied to every input of the domain
SpecPlan == InitPlan /\ [][PlanNext]_vars

\* a scan session
Init == PlanIdle /\ SessionInit /\ ExtractIdle /\ SynthIdle /\ ReportIdle /\ PagesIdle /\ MonitorIdle

Next ==
    \/ NoRepositories
    \/ BeginRepository
    \/ EndRepository
    \/ PickAsset
    \/ Classify
    \/ Plan
    \/ Download
    \/ StartScan
    \/ JsonScan
    \/ HtmlScan
    \/ ReadResults
    \/ CleanupExtract
    \/ HandleResult
    \/ DockerComponent
    \/ DockerScan
    \/ Report

Spec == Init /\ [][Next]_vars

(***************************************************************************)
(* Properties                                                              *)
(***************************************************************************)

Range(q) == {q[i] : i \in 1..Len(q)}

\* the checksum extensions as the specification lists them
ChecksumSuffixes ==
    {<<".","m","d","5">>, <<".","s","h","a","1">>,
     <<".","s","h","a","2","5","6">>,
     <<".","s","h","a","5","1","2">>}

HasChecksumSuffix(name) == \E e \in ChecksumSuffixes : EndsWith(name, e)

\* C1: for every name ending in .md5, .sha1, .sha256 or .sha512 and every
\* repository format, docker and npm included, classifying the name and then
\* planning gives a strategy with skip == true.
C1_ChecksumNameSkippedInEveryFormat ==
    (c_pc = "planned" /\ HasChecksumSuffix(c_name)) => c_strategy.skip_scan

\* positions of the session inside the pipeline of one asset, after planning
PipelinePcs == {"download", "scan", "json_scan", "html_scan", "read",
                "cleanup", "result"}

\* C2: an asset whose strategy has skip == true is never downloaded and the
\* engine is never invoked for it; it is recorded as skipped and the session
\* is at the loop head or beyond, never inside the pipeline of that asset.
C2_SkippedNeverDownloadedNorScanned ==
    \A k \in 1..Len(plans) :
        plans[k].strategy.skip_scan =>
            /\ plans[k].item \notin Range(downloads)
            /\ plans[k].item \notin Range(engine_runs)
            /\ \E r \in Range(scan_issues.skipped_files) : r.item = plans[k].item
            /\ (plans[k].item = n_items => pc \notin PipelinePcs)

\* a skipped asset was followed by an asset that was downloaded and scanned
C2_Witness ==
    \E k \in 1..Len(plans) :
        /\ plans[k].strategy.skip_scan
        /\ plans[k].item < n_items
        /\ n_items \in Range(downloads)
        /\ n_items \in Range(engine_runs)

\* the temporary files scan_with_strategy and scan_with_trivy make for an asset
ExecutorFiles(name) ==
    {JsonOutputFile(name, FALSE), HtmlOutputFile(name, FALSE),
     JsonOutputFile(name, TRUE), HtmlOutputFile(name, TRUE), ExtractDir(name)}

\* C3: when scan_with_strategy has returned, on every exit path, neither of
\* the two engine output files nor the extraction directory exists.
C3_ExecutorLeavesNoTemporaryFile ==
    pc = "result" => ExecutorFiles(cur_asset) \cap fs = {}

\* C4: every file in the temporary directory belongs to the one asset (or
\* docker component) being processed; at the loop head, where the next asset
\* begins, the directory is empty.  A session that has already failed is not
\* judged.
C4_OnlyCurrentAssetResident ==
    \A p \in fs :
        \/ pc \in {"aborted", "report_failed"}
        \/ pc \in PipelinePcs /\ p.base = SafeFilename(cur_asset)
        \/ pc = "docker" /\ \E i \in 1..NumImageRefs :
              LET image_reference ==
                      ImageReferences(RepoName(n_repos), cur_component.name,
                                      cur_component.version)[i]
              IN p \in {DockerJsonFile(image_reference),
                        DockerHtmlFile(image_reference)}

\* C5: no failure of an asset's processing lets an exception leave the
\* per-asset pipeline: the session is never aborted from inside it.
C5_NoExceptionLeavesAssetPipeline == pc # "aborted"

SpecRules(name, fmt) ==
    LET n == Lower(name) IN
    IF fmt = "docker" THEN "container_image"
    ELSE IF fmt = "npm" THEN "node_package"
    ELSE IF EndsWithAny(n, ChecksumExts) THEN "script"
    ELSE IF EndsWithAny(n, JavaArchiveExts) THEN "java_jar"
    ELSE IF EndsWithAny(n, JavaSourceExts) THEN "java_source"
    ELSE IF Contains(n, PomXml) \/ EndsWith(n, PomExt) THEN "maven_pom"
    ELSE IF EndsWithAny(n, PythonExts)
            \/ (EndsWith(n, TarGz) /\ Contains(n, PythonHint))
        THEN "python_package"
    ELSE IF EndsWithAny(n, NugetExts) THEN "nuget_package"
    ELSE IF \/ Contains(n, PackageJson)
            \/ EndsWith(n, NpmExt)
            \/ /\ (EndsWith(n, Tgz) \/ EndsWith(n, TarGz))
               /\ (Contains(n, NodeHint) \/ Contains(n, ClientHint)
                   \/ Contains(n, NpmHint))
        THEN "node_package"
    ELSE IF ContainsAny(n, DockerManifestNames) THEN "docker_manifest"
    ELSE IF EndsWithAny(n, ArchiveExts) \/ EndsWithAny(n, TarExts) THEN "archive"
    ELSE IF EndsWithAny(n, ExecutableExts) THEN "binary_executable"
    ELSE IF EndsWithAny(n, ScriptExts) THEN "script"
    ELSE IF EndsWithAny(n, ConfigExts) THEN "configuration"
    ELSE IF ContainsAny(n, SbomNames)
            \/ (EndsWith(n, JsonExt) /\ Contains(n, SbomHint))
        THEN "sbom"
    ELSE IF ContainsAny(n, SecurityReportNames) THEN "security_report"
    ELSE IF fmt = "maven2" THEN "maven_artifact"
    ELSE IF fmt = "nuget" THEN "nuget_package"
    ELSE IF fmt = "raw" THEN "raw_file"
    ELSE "unknown"

\* C7: detect_artifact_type returns the result of the first matching rule of
\* the sixteen rules of the specification, evaluated in their listed order.
C7_FirstMatchingRuleWins ==
    c_pc = "detected" => c_type = SpecRules(c_name, c_fmt)

\* the name hints at a node package
HasNodeHint(n) ==
    \/ Contains(n, NodeHint) \/ Contains(n, ClientHint)
    \/ Contains(n, NpmHint) \/ Contains(n, PackageJson)

\* a rule listed before the node rule matches the name
EarlierRuleMatches(n) ==
    \/ EndsWithAny(n, ChecksumExts) \/ EndsWithAny(n, JavaArchiveExts)
    \/ EndsWithAny(n, JavaSourceExts)
    \/ Contains(n, PomXml) \/ EndsWith(n, PomExt)
    \/ EndsWithAny(n, PythonExts)
    \/ (EndsWith(n, TarGz) /\ Contains(n, PythonHint))
    \/ EndsWithAny(n, NugetExts)

\* C8: outside docker and npm repositories a .tgz or .tar.gz name that no
\* earlier rule matches is a node_package only if it carries a node hint;
\* without a hint (and without a manifest.json/config.json hint) it is an
\* archive.
C8_TarballNodeOnlyWithHint ==
    LET n == Lower(c_name) IN
    (/\ c_pc = "detected"
     /\ c_fmt \notin {"docker", "npm"}
     /\ (EndsWith(n, Tgz) \/ EndsWith(n, TarGz))
     /\ ~EarlierRuleMatches(n))
    => /\ (c_type = "node_package" => HasNodeHint(n))
       /\ (~HasNodeHint(n) /\ ~ContainsAny(n, DockerManifestNames)
              => c_type = "archive")

\* the word the skip reason has to mention
ChecksumWord == <<"c","h","e","c","k","s","u","m">>

\* C9: outside docker and npm repositories a name ending in a checksum
\* extension is classified script, and its strategy has skip == true with a
\* reason that mentions "checksum".
C9_ChecksumIsSkippedScript ==
    (/\ c_pc \in {"detected", "planned"}
     /\ c_fmt \notin {"docker", "npm"}
     /\ HasChecksumSuffix(Lower(c_name)))
    => /\ c_type = "script"
       /\ (c_pc = "planned" =>
              /\ c_strategy.skip_scan
              /\ Contains(c_strategy.reason, ChecksumWord))

\* the strategy of checksums/app.sha256 style names in a raw repository
C9_Witness ==
    /\ c_pc = "planned"
    /\ c_fmt = "raw"
    /\ EndsWith(c_name, <<".","s","h","a","2","5","6">>)
    /\ c_type = "script"
    /\ c_strategy.skip_scan

\* the fields of a strategy the table of the specification fixes
StrategyView(s) ==
    [mode |-> s.scan_type, extract |-> s.extract_before_scan,
     archive |-> s.scan_as_archive, skip |-> s.skip_scan]

TableRow(mode, extract, archive, skip) ==
    [mode |-> mode, extract |-> extract, archive |-> archive, skip |-> skip]

\* the table of the specification, first matching row
TableStrategy(type, name, fmt) ==
    IF type \in {"java_jar", "maven_artifact"} THEN TableRow("fs", FALSE, TRUE, FALSE)
    ELSE IF type = "container_image" \/ fmt = "docker"
        THEN TableRow("image", FALSE, FALSE, FALSE)
    ELSE IF type = "python_package" THEN TableRow("fs", FALSE, TRUE, FALSE)
    ELSE IF type = "node_package" THEN
        (IF EndsWith(name, Tgz) \/ EndsWith(name, TarGz)
         THEN TableRow("fs", TRUE, FALSE, FALSE)
         ELSE TableRow("fs", FALSE, TRUE, FALSE))
    ELSE IF type = "nuget_package" THEN TableRow("fs", FALSE, TRUE, FALSE)
    ELSE IF type \in {"archive", "source_code"} THEN TableRow("fs", TRUE, FALSE, FALSE)
    ELSE IF type \in {"configuration", "sbom"} THEN TableRow("config", FALSE, FALSE, FALSE)
    ELSE IF HasChecksumSuffix(Lower(name)) THEN TableRow("fs", FALSE, FALSE, TRUE)
    ELSE IF type = "security_report" THEN TableRow("fs", FALSE, FALSE, TRUE)
    ELSE TableRow("fs", FALSE, FALSE, FALSE)

\* C10: for every (artifact type, name, format) determine_scan_strategy
\* returns the strategy of the table of the specification: archive-mode
\* filesystem scans for java, python and nuget, image mode for containers,
\* pre-extraction for node tarballs and archives, config mode for
\* configuration and sbom, skip for checksum-suffixed names and security
\* reports, and a plain filesystem scan for every other type.
C10_StrategyFollowsTable ==
    c_pc = "planned_given" =>
        StrategyView(c_strategy) = TableStrategy(c_type, c_name, c_fmt)

\* C11: matching on the asset name is case-insensitive: a name and the name
\* that differs from it only in letter case (its lower-case form) get, in the
\* same repository format, the same artifact type and the same strategy
\* (engine mode, extract_before_scan, scan_as_archive, skip).
C11_MatchingIsCaseInsensitive ==
    /\ (c_pc = "detected" =>
            c_type = DetectArtifactType(Lower(c_name), c_fmt))
    /\ (c_pc = "planned" =>
            StrategyView(c_strategy) =
                StrategyView(DetermineScanStrategy(
                    DetectArtifactType(Lower(c_name), c_fmt),
                    Lower(c_name), c_fmt)))

\* C17: a failed download skips the asset (no engine invocation, no
\* vulnerability record) and is counted as a scan error: stats scan_errors
\* is one higher after the asset than before it.
C17_DownloadFailureCountedAsScanError ==
    [][(pc = "download" /\ pc' = "item") =>
          /\ engine_runs' = engine_runs
          /\ all_vulnerabilities' = all_vulnerabilities
          /\ stats'.scan_errors = stats.scan_errors + 1]_vars

\* the engine invocation failed: non-zero exit or timeout
FailedScan(sc) == sc.returned = "None"

\* the structured output is malformed: not parseable, or parseable but empty
MalformedScan(sc) ==
    /\ sc.returned = "tuple"
    /\ \/ sc.json_file \in {"blank", "invalid"}
       \/ sc.json_file = "parsed" /\ ~Truthy(sc.json_data)

C19_EitherInvocationFailureReturnsNone ==
    pc = "result" =>
        /\ scan.json_exit # "none"
        /\ (scan.json_exit = "zero" => scan.html_exit # "none")
        /\ (scan.json_exit \in {"nonzero", "timeout"}
              \/ scan.html_exit \in {"nonzero", "timeout"}
            => scan.returned = "None")

\* archive formats extract_archive does not support
UnsupportedExts == <<<<".","7","z">>, <<".","r","a","r">>>>

\* engine invocations made for an item
RunsFor(item) == Cardinality({k \in 1..Len(engine_runs) : engine_runs[k] = item})

\* C20: when the strategy requires pre-extraction and extract_archive fails
\* (it always does for an unsupported format), the failure is a returned
\* False and no exception: scan_with_strategy goes on to the engine, which is
\* invoked exactly once, on the path of the downloaded artifact and not on
\* the extraction directory; and the extraction directory is gone when
\* scan_with_strategy has returned.
C20_FailedExtractionScansOriginalPath ==
    (pc = "result" /\ cur_strategy.extract_before_scan) =>
        /\ scan.extract_dir
        /\ (EndsWithAny(Lower(cur_asset), UnsupportedExts) => ~scan.extracted)
        /\ (~scan.extracted =>
              /\ scan.json_exit # "none"
              /\ RunsFor(n_items) = 1
              /\ scan.file_path = LocalPath(cur_asset)
              /\ ExtractDir(cur_asset) \notin fs)

\* the vulnerability records of the session that carry a severity
WithSeverity(sev) ==
    {i \in 1..Len(all_vulnerabilities) : all_vulnerabilities[i].severity = sev}

RECURSIVE SumCounts(_)
SumCounts(counts) ==
    IF DOMAIN counts = {} THEN 0
    ELSE LET k == CHOOSE x \in DOMAIN counts : TRUE IN
         counts[k] + SumCounts([j \in DOMAIN counts \ {k} |-> counts[j]])

\* C14: the per-severity counts of the session report equal, for each
\* severity, the number of vulnerability records of that severity over all
\* processed assets; a severity without record has no count, and the counts
\* sum to the number of records.
C14_SeverityCountsMatchRecords ==
    report.generated =>
        LET counts == report.severity_breakdown IN
        /\ DOMAIN counts =
              {all_vulnerabilities[i].severity : i \in 1..Len(all_vulnerabilities)}
        /\ \A sev \in DOMAIN counts : counts[sev] = Cardinality(WithSeverity(sev))
        /\ SumCounts(counts) = Len(all_vulnerabilities)

\* the report of a session in which two assets had findings
C14_Witness ==
    /\ pc = "done"
    /\ report.generated
    /\ Len(all_vulnerabilities) = 4
    /\ \E i, j \in 1..Len(all_vulnerabilities) :
          all_vulnerabilities[i].item # all_vulnerabilities[j].item
    /\ report.severity_breakdown[JStr("HIGH")] = 2
    /\ report.severity_breakdown[JStr("LOW")] = 2

\* a section of the expected shape: a dict whose findings are absent, null
\* or a list of dicts
WellShapedSection(s) ==
    /\ s.t = "dict"
    /\ \/ "Vulnerabilities" \notin DOMAIN s.v
       \/ s.v.Vulnerabilities.t = "null"
       \/ /\ s.v.Vulnerabilities.t = "list"
          /\ \A i \in 1..Len(s.v.Vulnerabilities.v) :
                s.v.Vulnerabilities.v[i].t = "dict"

\* a raw result of the expected shape, absent and empty results included
WellShapedOutput(doc) ==
    \/ doc.t = "null"
    \/ /\ doc.t = "dict"
       /\ \/ "Results" \notin DOMAIN doc.v
          \/ /\ doc.v.Results.t = "list"
             /\ \A i \in 1..Len(doc.v.Results.v) :
                   WellShapedSection(doc.v.Results.v[i])

\* the sections of a raw result, and the findings of a section
SectionsOf(doc) ==
    IF doc.t = "dict" /\ "Results" \in DOMAIN doc.v THEN doc.v.Results.v ELSE <<>>

FindingsOf(s) ==
    IF "Vulnerabilities" \in DOMAIN s.v /\ s.v.Vulnerabilities.t = "list"
    THEN s.v.Vulnerabilities.v ELSE <<>>

\* every finding with its section, in section order and then finding order
RECURSIVE ExpectedFindings(_)
ExpectedFindings(sections) ==
    IF sections = <<>> THEN <<>>
    ELSE [i \in 1..Len(FindingsOf(Head(sections))) |->
             [section |-> Head(sections),
              finding |-> FindingsOf(Head(sections))[i]]]
         \o ExpectedFindings(Tail(sections))

\* C12: extract_vulnerabilities returns exactly one record per finding, in
\* section order and within a section in finding order, each with the target
\* of its section; sections without findings contribute nothing and raise
\* nothing, and an absent or empty raw result gives the empty list.
C12_OneRecordPerFinding ==
    (x_pc = "extracted" /\ WellShapedOutput(x_doc)) =>
        LET expected == ExpectedFindings(SectionsOf(x_doc)) IN
        /\ ~x_out.raised
        /\ Len(x_out.records) = Len(expected)
        /\ \A i \in 1..Len(expected) :
              /\ x_out.records[i].vulnerability_id =
                    expected[i].finding.v.VulnerabilityID
              /\ ("Target" \in DOMAIN expected[i].section.v =>
                    x_out.records[i].target = expected[i].section.v.Target)

\* a section with one finding followed by a section with two
C12_Witness ==
    /\ x_pc = "extracted"
    /\ Len(SectionsOf(x_doc)) = 2
    /\ Len(x_out.records) = 3
    /\ x_out.records[1].target = JStr("d.lock")
    /\ x_out.records[2].target = JStr("e.lock")
    /\ x_out.records[3].vulnerability_id = JStr("CVE-2")

TextFields(r) ==
    <<r.vulnerability_id, r.pkg_name, r.pkg_version, r.title, r.description,
      r.fixed_version>>

\* C13: every record extract_vulnerabilities produces has a non-empty target
\* and no null field: the text fields and the severity are strings and the
\* references are a list, whatever fields the raw output misses, leaves
\* empty or sets to null.
C13_RecordsHaveTargetAndNoNull ==
    x_pc = "extracted" =>
        \A i \in 1..Len(x_out.records) :
            LET r == x_out.records[i] IN
            /\ r.target.t = "str" /\ r.target.v # ""
            /\ \A j \in 1..Len(TextFields(r)) : TextFields(r)[j].t = "str"
            /\ r.severity.t = "str"
            /\ r.references.t = "list"

\* a directory holds a lock file
HasLock(entry) == DOMAIN entry.locks # {}

\* C15: a call of the synthesis performs no action for a manifest that has a
\* sibling lock file: every lock file present before the call, in particular
\* every lock file present after the first call when the second call is
\* made, is identical after it.
C15_SynthesisLeavesExistingLocks ==
    (m_calls >= 1 /\ m_op = "enhance") =>
        \A d \in DOMAIN m_prev :
            HasLock(m_prev[d]) =>
                /\ d \in DOMAIN m_tree
                /\ m_tree[d].locks = m_prev[d].locks

\* the second call, made by the synthesis on a tree whose lock file the
\* first call synthesised
C15_Witness ==
    /\ m_calls = 2
    /\ m_op = "enhance"
    /\ "package-lock.json" \in DOMAIN m_prev[<<>>].locks
    /\ m_prev[<<>>].locks["package-lock.json"].t = "synth"
    /\ DOMAIN m_prev[<<>>].locks["package-lock.json"].dependencies = {"a", "b"}
    /\ m_tree[<<>>].locks = m_prev[<<>>].locks

\* the declared range without its leading range-operator characters
RECURSIVE StripOperators(_)
StripOperators(range) ==
    IF range # <<>> /\ Head(range) \in {"^", "~", ">", "=", "<"}
    THEN StripOperators(Tail(range)) ELSE range

\* the manifest declares a map from names to version ranges
DeclaresDependencyMap(manifest) ==
    /\ manifest.t = "dict"
    /\ manifest.dependencies.t = "map"
    /\ \A k \in DOMAIN manifest.dependencies.v :
          manifest.dependencies.v[k].t = "str"

\* C16: for every manifest without sibling lock file that declares a
\* dependency map D, after the synthesis the dependency-map section of its
\* lock file has the keys of D, each with the declared range stripped of its
\* leading operators, and the subdirectories created under its node_modules
\* are those of the keys of D, each with a manifest of that stripped version.
C16_LockCoversDeclaredDependencies ==
    (m_calls = 1 /\ m_op = "enhance") =>
        \A d \in DOMAIN m_prev :
            (~HasLock(m_prev[d]) /\ DeclaresDependencyMap(m_prev[d].manifest)) =>
                LET D == m_prev[d].manifest.dependencies.v
                    locks == m_tree[d].locks
                IN
                /\ "package-lock.json" \in DOMAIN locks
                /\ locks["package-lock.json"].t = "synth"
                /\ DOMAIN locks["package-lock.json"].dependencies = DOMAIN D
                /\ \A k \in DOMAIN D :
                      /\ locks["package-lock.json"].dependencies[k] =
                            StripOperators(D[k].v)
                      /\ d \o <<k>> \in DOMAIN m_tree
                      /\ m_tree[d \o <<k>>].manifest.t = "dict"
                      /\ m_tree[d \o <<k>>].manifest.version =
                            StripOperators(D[k].v)
                /\ {x \in DOMAIN m_tree \ DOMAIN m_prev :
                        Len(x) = Len(d) + 1 /\ SubSeq(x, 1, Len(d)) = d}
                      \subseteq {d \o <<k>> : k \in DOMAIN D}

\* C28: the synthesis only adds files: every manifest and every lock file
\* that was in the tree before a call of enhance_nodejs_package_for_scanning,
\* the manifest of a dependency bundled under node_modules/<dependency>
\* included, is in the tree with the same content after the call.
C28_SynthesisOnlyAddsFiles ==
    (m_calls >= 1 /\ m_op = "enhance") =>
        \A d \in DOMAIN m_prev :
            /\ d \in DOMAIN m_tree
            /\ m_tree[d].manifest = m_prev[d].manifest
            /\ \A n \in DOMAIN m_prev[d].locks :
                  /\ n \in DOMAIN m_tree[d].locks
                  /\ m_tree[d].locks[n] = m_prev[d].locks[n]

\* a manifest the synthesis can read: valid JSON object whose dependencies
\* are absent or a map from names to version ranges
WellFormedManifest(manifest) ==
    /\ manifest.t = "dict"
    /\ \/ manifest.dependencies.t = "absent"
       \/ DeclaresDependencyMap(manifest)

\* invalid JSON, or a dependency map of the wrong shape
MalformedManifest(manifest) ==
    manifest # NoManifest /\ ~WellFormedManifest(manifest)

\* the dependency names a well-formed manifest declares
DeclaredNames(manifest) ==
    IF manifest.dependencies.t = "map" THEN DOMAIN manifest.dependencies.v
    ELSE {}

\* C21: in a tree with several manifests of which one, without sibling lock
\* file, is malformed, one call of the synthesis leaves no lock file next to
\* a malformed manifest and gives every other manifest without sibling lock
\* file its lock file, covering the dependencies it declares, and one
\* subdirectory with a manifest per declared dependency.
C21_MalformedManifestFailsAlone ==
    (/\ m_calls = 1
     /\ m_op = "enhance"
     /\ Cardinality(DOMAIN m_prev) >= 2
     /\ \E d \in DOMAIN m_prev :
           MalformedManifest(m_prev[d].manifest) /\ ~HasLock(m_prev[d]))
    => \A d \in DOMAIN m_prev :
          ~HasLock(m_prev[d]) =>
             IF MalformedManifest(m_prev[d].manifest)
             THEN ~HasLock(m_tree[d])
             ELSE /\ "package-lock.json" \in DOMAIN m_tree[d].locks
                  /\ DOMAIN m_tree[d].locks["package-lock.json"].dependencies
                        = DeclaredNames(m_prev[d].manifest)
                  /\ \A k \in DeclaredNames(m_prev[d].manifest) :
                        /\ d \o <<k>> \in DOMAIN m_tree
                        /\ m_tree[d \o <<k>>].manifest.t = "dict"

\* the filename hints of a security report, as the specification lists them
ReportHints ==
    {<<"t","r","i","v","y","-","r","e","p","o","r","t">>,
     <<"s","c","a","n","-","r","e","p","o","r","t">>,
     <<".","s","a","r","i","f">>}

HasReportHint(name) == \E h \in ReportHints : Contains(name, h)

\* C24: outside docker and npm repositories, a name that contains
\* trivy-report, scan-report or .sarif and is not a checksum file is
\* classified security_report and its strategy has skip == true, so the
\* asset is never handed to the scan engine.
C24_ScanOutputNeverScanned ==
    (/\ c_pc \in {"detected", "planned"}
     /\ c_fmt \notin {"docker", "npm"}
     /\ HasReportHint(Lower(c_name))
     /\ ~HasChecksumSuffix(Lower(c_name)))
    => /\ c_type = "security_report"
       /\ (c_pc = "planned" => c_strategy.skip_scan)

\* C25: determine_scan_strategy returns skip == true only for a name that
\* ends in a checksum extension or for the type security_report; a name that
\* contains a checksum extension before its real suffix is not skipped.
C25_SkipOnlyChecksumSuffixOrReport ==
    (c_pc \in {"planned", "planned_given"} /\ c_strategy.skip_scan)
    => \/ HasChecksumSuffix(Lower(c_name))
       \/ c_type = "security_report"

\* how often x occurs in the sequence q
Occurrences(q, x) == Cardinality({i \in 1..Len(q) : q[i] = x})

\* C22: no error is retried: every asset, and every component of a docker
\* repository, is downloaded at most once and the structured scan of the
\* engine is invoked at most once for it, whatever that attempt gave.
C22_SingleAttemptPerItem ==
    \A item \in 1..n_items :
        /\ Occurrences(downloads, item) <= 1
        /\ Occurrences(engine_runs, item) <= 1

\* positions of the session at which no asset is being processed
BetweenAssets == {"item", "repo", "returned", "done", "report_failed"}

\* the assets counted as scanned: those planned with skip == false
ScannedItems ==
    {plans[k].item : k \in {j \in 1..Len(plans) : ~plans[j].strategy.skip_scan}}

\* the records of a list that are about one item
RecordsOf(records, item) == {i \in 1..Len(records) : records[i].item = item}

\* C26: once the processing of an asset is complete, stats assets_scanned is
\* the number of successful-scan records plus the number of error records,
\* and every asset counted as scanned has exactly one record in the two lists
\* together: one successful-scan record or one error record.
C26_ScannedIsSuccessOrError ==
    pc \in BetweenAssets =>
        /\ stats.assets_scanned =
              Len(scan_issues.successful_scans) + Len(scan_issues.errors)
        /\ stats.assets_scanned = Cardinality(ScannedItems)
        /\ \A item \in ScannedItems :
              Cardinality(RecordsOf(scan_issues.successful_scans, item))
                + Cardinality(RecordsOf(scan_issues.errors, item)) = 1

\* two assets were counted: one ended in a successful-scan record, the other
\* in an error record
C26_Witness ==
    /\ pc = "item"
    /\ stats.assets_scanned = 2
    /\ Len(scan_issues.successful_scans) = 1
    /\ Len(scan_issues.errors) = 1

\* C27: at the end of the session stats vulnerabilities_found is the number
\* of vulnerability records handed to save_results and
\* generate_combined_report, docker repositories included.
C27_FoundCountsReportedRecords ==
    pc \in {"done", "report_failed"} =>
        stats.vulnerabilities_found = Len(all_vulnerabilities)

\* the ascending order of the component names
ComponentOrder == <<"a", "b", "c">>

Rank(c) == CHOOSE i \in 1..Len(ComponentOrder) : ComponentOrder[i] = c

\* the components of the records of one repository
ComponentsOf(vulnerabilities, repo) ==
    {vulnerabilities[i].component :
        i \in {j \in 1..Len(vulnerabilities) :
                  vulnerabilities[j].repository = repo}}

\* C23: the affected components of each repository are emitted as a sequence
\* in ascending order that holds each component name exactly once, whatever
\* the order of the records.
C23_ComponentsSortedAndUnique ==
    r_pc = "reported" =>
        \A r \in DOMAIN r_summary :
            LET q == r_summary[r].components_with_vulnerabilities IN
            /\ {q[i] : i \in 1..Len(q)} = ComponentsOf(r_vulns, r)
            /\ \A i, j \in 1..Len(q) : i < j => Rank(q[i]) < Rank(q[j])

\* the items of the pages fetched successfully, in page order
RECURSIVE FetchedItems(_, _)
FetchedItems(responses, page) ==
    IF page > Len(responses) THEN <<>>
    ELSE (IF responses[page].kind = "ok"
          THEN PageItems(page, responses[page].count) ELSE <<>>)
         \o FetchedItems(responses, page + 1)

\* C29: get_repository_components returns the components of every page that
\* was fetched successfully before pagination stopped, in page order, also
\* when a later request fails, and it stops at the first response without
\* continuation token.
C29_FetchedPagesAreReturned ==
    /\ g_pc = "returned" => g_returned = FetchedItems(g_responses, 1)
    /\ \A k \in 1..Len(g_responses) :
          (g_responses[k].kind = "ok" /\ ~g_responses[k].token) =>
              (k = Len(g_responses) /\ g_pc = "returned")

\* C30: whenever parse_log_progress has read the log between two assets, the
\* vulnerabilities_found total it reports is the scanner's own stats
\* vulnerabilities_found for the assets logged so far: the count of each
\* scanned asset is added exactly once.
C30_MonitorTotalMatchesStats ==
    (l_snapshot.t = "stats" /\ l_snapshot.at = "idle") =>
        l_progress.v.vulnerabilities_found = l_snapshot.v.vulnerabilities_found

====
